---- MODULE Spec2Model ----
(***************************************************************************)
(* Access-control and identity-protection layer of the case-management     *)
(* platform: the ABAC evaluator (src/lib/abac/evaluator.ts), the database  *)
(* trigger that guards attribute grants                                    *)
(* (src/scripts/migrations/016_admin_audit_complete.sql), the request      *)
(* guards (src/proxy.ts), the case-detail endpoint (src/unnamed/part_006), *)
(* the judge case page (src/app/judge/cases/[id]/page.tsx), and the audit  *)
(* endpoints (src/app/api/audit) with their rate limiter and meta-audit    *)
(* (src/lib/vault/middleware.ts).                                          *)
(***************************************************************************)
EXTENDS Integers, Sequences, FiniteSets, TLC

VARIABLES
    role,                     \* users_profile.role, per user
    user_attributes,          \* table user_attributes joined with abac_attributes.name
    now,                      \* the database clock, now()
    policy_enforcement_log,   \* table policy_enforcement_log (the audit sink)
    ctx,                      \* the EvaluationContext under study
    last,                     \* outcome of the operation that just returned
    status,                   \* users_profile.status, per user
    cases,                    \* table cases
    case_assignments,         \* table case_assignments
    identity_mapping,         \* the vault's pseudonyms: anon id, user, case
    rateLimitMap,             \* rateLimitMap of the middleware guard
    clock,                    \* Date.now() of the server process, in ms
    http,                     \* the HTTP request that was just served
    requests,                 \* number of HTTP requests served
    ephemeral_credentials,    \* table ephemeral_credentials, by token
    pages,                    \* the renders of JudgeCasePage in progress
    rateLimitStore,           \* rateLimitStore of lib/vault/middleware
    rateCalls,                \* the calls of checkRateLimit made so far
    audit_access_log,         \* table audit_access_log (the meta-audit)
    handlers                  \* the audit endpoint requests in progress

\* the state of the request guards, the endpoints and the judge case page
\* the state of the audit endpoints and their rate limiter
auditVars == <<rateLimitStore, rateCalls, audit_access_log, handlers>>

platformVars ==
    <<status, cases, case_assignments, identity_mapping, rateLimitMap, clock,
      http, requests, ephemeral_credentials, pages, auditVars>>

vars == <<role, user_attributes, now, policy_enforcement_log, ctx, last, platformVars>>

-----------------------------------------------------------------------------
(* Bounds of the model.                                                    *)

\* the clock runs from 0 to MaxTime; a grant with an expiry expires at MaxTime
MaxTime == 1
\* the audit sink holds at most MaxLog decisions
MaxLog == 2
\* at most MaxRequests HTTP requests are served
MaxRequests == 2
\* the server clock runs to one millisecond past MaxWindows rate-limit windows
MaxWindows == 1
\* MaxCalls renders of the judge case page run, one after another or concurrently
MaxCalls == 3
\* a credential is issued with a time to live of at most MaxTtl
MaxTtl == 1
\* calls of checkRateLimit in one behaviour, the largest limit passed to it and
\* the windows the server clock runs through
MaxRateCalls == 4
MaxLimit == 2
MaxRateWindows == 2
\* concurrent requests to the audit endpoints
MaxHandlers == 2
\* instants of now in one day
TicksPerDay == 2

-----------------------------------------------------------------------------
(* Strings.  TLA+ strings are atomic, so the character-level operations    *)
(* of the code (startsWith, includes, SQL LIKE 'p%') are computed on the   *)
(* character sequence of each name.                                        *)

\* the strings whose characters the code looks at
Names ==
    { "case.create", "case.view", "case.view_details", "case.edit",
      "case.update_status", "case.assign", "case.close", "case.delete",
      "doc.view", "doc.upload", "doc.download", "doc.sign", "doc.delete",
      "doc.export", "user.list", "user.view", "user.create", "user.edit",
      "user.deactivate", "admin.reveal_identity", "admin.abac",
      "admin.audit", "case.list.view", "case.details.view",
      "case.edit.metadata", "case.edit.status", "case.assign.judge",
      "doc.sign.digital", "user.list.view", "user.profile.view",
      "admin.vault.reveal_identity", "admin.abac.manage", "admin.audit.view",
      "clearance.L1.public", "clearance.L2.confidential",
      "clearance.L3.secret", "clearance.L4.top_secret", "clearance.special",
      "restrict.read_only", "restrict.no_export", "restrict.no_delete",
      "audit.logs.view", "audit.metrics.view", "audit.tokens.view",
      "audit.cases.stats", "audit.export.csv", "clearance.", "admin.vault.",
      "case.", "user.", "L1", "L2", "L3", "L4", "/api/admin/cases/c1",
      "/api/admin/cases/c2", "/api/admin/cases/", "c1", "c2", "/auth/login",
      "/auth/signup", "/auth/callback", "/auth/signout", "/supreme-court",
      "/admin", "/judge", "/api/admin", "/api/audit", "/api/judge",
      "/dashboard", "/", "/supreme-court/cases", "/admin/users",
      "/judge/cases", "/api/admin/users", "/api/audit/logs",
      "/api/judge/cases", "/api/cases", "Permiso denegado",
      "Permiso denegado: requiere atributo",
      "Accion bloqueada por restriccion",
      "Nivel de seguridad insuficiente para este caso", "Acceso permitido",
      "Error del sistema - acceso denegado por seguridad",
      "Missing required attribute", "Blocked by restriction",
      "Insufficient clearance for classification", "All checks passed",
      "Access decision logged", ": ", "...", "u1", "u2", "allow", "deny",
      "case", "cases", "audit", "public", "confidential", "secret",
      "top_secret", "", "0", "-5", "abc", "7", "100", "101", "1000", "1001",
      "12abc", " 7", "+5", "-0", "1", "20", "2024-01-15", "2024-1-5",
      "2024-13-45", "2024-01-15T00:00", "15/01/2024", "judge-1",
      "<b>a'; DROP</b>", "  x y  " }

\* the characters of each string
CharsOf ==
    [ s \in Names |->
      CASE s = "case.create" -> <<"c", "a", "s", "e", ".", "c", "r", "e", "a", "t", "e">>
        [] s = "case.view" -> <<"c", "a", "s", "e", ".", "v", "i", "e", "w">>
        [] s = "case.view_details" -> <<"c", "a", "s", "e", ".", "v", "i", "e", "w", "_", "d", "e", "t", "a", "i", "l", "s">>
        [] s = "case.edit" -> <<"c", "a", "s", "e", ".", "e", "d", "i", "t">>
        [] s = "case.update_status" -> <<"c", "a", "s", "e", ".", "u", "p", "d", "a", "t", "e", "_", "s", "t", "a", "t", "u", "s">>
        [] s = "case.assign" -> <<"c", "a", "s", "e", ".", "a", "s", "s", "i", "g", "n">>
        [] s = "case.close" -> <<"c", "a", "s", "e", ".", "c", "l", "o", "s", "e">>
        [] s = "case.delete" -> <<"c", "a", "s", "e", ".", "d", "e", "l", "e", "t", "e">>
        [] s = "doc.view" -> <<"d", "o", "c", ".", "v", "i", "e", "w">>
        [] s = "doc.upload" -> <<"d", "o", "c", ".", "u", "p", "l", "o", "a", "d">>
        [] s = "doc.download" -> <<"d", "o", "c", ".", "d", "o", "w", "n", "l", "o", "a", "d">>
        [] s = "doc.sign" -> <<"d", "o", "c", ".", "s", "i", "g", "n">>
        [] s = "doc.delete" -> <<"d", "o", "c", ".", "d", "e", "l", "e", "t", "e">>
        [] s = "doc.export" -> <<"d", "o", "c", ".", "e", "x", "p", "o", "r", "t">>
        [] s = "user.list" -> <<"u", "s", "e", "r", ".", "l", "i", "s", "t">>
        [] s = "user.view" -> <<"u", "s", "e", "r", ".", "v", "i", "e", "w">>
        [] s = "user.create" -> <<"u", "s", "e", "r", ".", "c", "r", "e", "a", "t", "e">>
        [] s = "user.edit" -> <<"u", "s", "e", "r", ".", "e", "d", "i", "t">>
        [] s = "user.deactivate" -> <<"u", "s", "e", "r", ".", "d", "e", "a", "c", "t", "i", "v", "a", "t", "e">>
        [] s = "admin.reveal_identity" -> <<"a", "d", "m", "i", "n", ".", "r", "e", "v", "e", "a", "l", "_", "i", "d", "e", "n", "t", "i", "t", "y">>
        [] s = "admin.abac" -> <<"a", "d", "m", "i", "n", ".", "a", "b", "a", "c">>
        [] s = "admin.audit" -> <<"a", "d", "m", "i", "n", ".", "a", "u", "d", "i", "t">>
        [] s = "case.list.view" -> <<"c", "a", "s", "e", ".", "l", "i", "s", "t", ".", "v", "i", "e", "w">>
        [] s = "case.details.view" -> <<"c", "a", "s", "e", ".", "d", "e", "t", "a", "i", "l", "s", ".", "v", "i", "e", "w">>
        [] s = "case.edit.metadata" -> <<"c", "a", "s", "e", ".", "e", "d", "i", "t", ".", "m", "e", "t", "a", "d", "a", "t", "a">>
        [] s = "case.edit.status" -> <<"c", "a", "s", "e", ".", "e", "d", "i", "t", ".", "s", "t", "a", "t", "u", "s">>
        [] s = "case.assign.judge" -> <<"c", "a", "s", "e", ".", "a", "s", "s", "i", "g", "n", ".", "j", "u", "d", "g", "e">>
        [] s = "doc.sign.digital" -> <<"d", "o", "c", ".", "s", "i", "g", "n", ".", "d", "i", "g", "i", "t", "a", "l">>
        [] s = "user.list.view" -> <<"u", "s", "e", "r", ".", "l", "i", "s", "t", ".", "v", "i", "e", "w">>
        [] s = "user.profile.view" -> <<"u", "s", "e", "r", ".", "p", "r", "o", "f", "i", "l", "e", ".", "v", "i", "e", "w">>
        [] s = "admin.vault.reveal_identity" -> <<"a", "d", "m", "i", "n", ".", "v", "a", "u", "l", "t", ".", "r", "e", "v", "e", "a", "l", "_", "i", "d", "e", "n", "t", "i", "t", "y">>
        [] s = "admin.abac.manage" -> <<"a", "d", "m", "i", "n", ".", "a", "b", "a", "c", ".", "m", "a", "n", "a", "g", "e">>
        [] s = "admin.audit.view" -> <<"a", "d", "m", "i", "n", ".", "a", "u", "d", "i", "t", ".", "v", "i", "e", "w">>
        [] s = "clearance.L1.public" -> <<"c", "l", "e", "a", "r", "a", "n", "c", "e", ".", "L", "1", ".", "p", "u", "b", "l", "i", "c">>
        [] s = "clearance.L2.confidential" -> <<"c", "l", "e", "a", "r", "a", "n", "c", "e", ".", "L", "2", ".", "c", "o", "n", "f", "i", "d", "e", "n", "t", "i", "a", "l">>
        [] s = "clearance.L3.secret" -> <<"c", "l", "e", "a", "r", "a", "n", "c", "e", ".", "L", "3", ".", "s", "e", "c", "r", "e", "t">>
        [] s = "clearance.L4.top_secret" -> <<"c", "l", "e", "a", "r", "a", "n", "c", "e", ".", "L", "4", ".", "t", "o", "p", "_", "s", "e", "c", "r", "e", "t">>
        [] s = "clearance.special" -> <<"c", "l", "e", "a", "r", "a", "n", "c", "e", ".", "s", "p", "e", "c", "i", "a", "l">>
        [] s = "restrict.read_only" -> <<"r", "e", "s", "t", "r", "i", "c", "t", ".", "r", "e", "a", "d", "_", "o", "n", "l", "y">>
        [] s = "restrict.no_export" -> <<"r", "e", "s", "t", "r", "i", "c", "t", ".", "n", "o", "_", "e", "x", "p", "o", "r", "t">>
        [] s = "restrict.no_delete" -> <<"r", "e", "s", "t", "r", "i", "c", "t", ".", "n", "o", "_", "d", "e", "l", "e", "t", "e">>
        [] s = "audit.logs.view" -> <<"a", "u", "d", "i", "t", ".", "l", "o", "g", "s", ".", "v", "i", "e", "w">>
        [] s = "audit.metrics.view" -> <<"a", "u", "d", "i", "t", ".", "m", "e", "t", "r", "i", "c", "s", ".", "v", "i", "e", "w">>
        [] s = "audit.tokens.view" -> <<"a", "u", "d", "i", "t", ".", "t", "o", "k", "e", "n", "s", ".", "v", "i", "e", "w">>
        [] s = "audit.cases.stats" -> <<"a", "u", "d", "i", "t", ".", "c", "a", "s", "e", "s", ".", "s", "t", "a", "t", "s">>
        [] s = "audit.export.csv" -> <<"a", "u", "d", "i", "t", ".", "e", "x", "p", "o", "r", "t", ".", "c", "s", "v">>
        [] s = "clearance." -> <<"c", "l", "e", "a", "r", "a", "n", "c", "e", ".">>
        [] s = "admin.vault." -> <<"a", "d", "m", "i", "n", ".", "v", "a", "u", "l", "t", ".">>
        [] s = "case." -> <<"c", "a", "s", "e", ".">>
        [] s = "user." -> <<"u", "s", "e", "r", ".">>
        [] s = "L1" -> <<"L", "1">>
        [] s = "L2" -> <<"L", "2">>
        [] s = "L3" -> <<"L", "3">>
        [] s = "L4" -> <<"L", "4">>
        [] s = "/api/admin/cases/c1" -> <<"/", "a", "p", "i", "/", "a", "d", "m", "i", "n", "/", "c", "a", "s", "e", "s", "/", "c", "1">>
        [] s = "/api/admin/cases/c2" -> <<"/", "a", "p", "i", "/", "a", "d", "m", "i", "n", "/", "c", "a", "s", "e", "s", "/", "c", "2">>
        [] s = "/api/admin/cases/" -> <<"/", "a", "p", "i", "/", "a", "d", "m", "i", "n", "/", "c", "a", "s", "e", "s", "/">>
        [] s = "c1" -> <<"c", "1">>
        [] s = "c2" -> <<"c", "2">>
        [] s = "/auth/login" -> <<"/", "a", "u", "t", "h", "/", "l", "o", "g", "i", "n">>
        [] s = "/auth/signup" -> <<"/", "a", "u", "t", "h", "/", "s", "i", "g", "n", "u", "p">>
        [] s = "/auth/callback" -> <<"/", "a", "u", "t", "h", "/", "c", "a", "l", "l", "b", "a", "c", "k">>
        [] s = "/auth/signout" -> <<"/", "a", "u", "t", "h", "/", "s", "i", "g", "n", "o", "u", "t">>
        [] s = "/supreme-court" -> <<"/", "s", "u", "p", "r", "e", "m", "e", "-", "c", "o", "u", "r", "t">>
        [] s = "/admin" -> <<"/", "a", "d", "m", "i", "n">>
        [] s = "/judge" -> <<"/", "j", "u", "d", "g", "e">>
        [] s = "/api/admin" -> <<"/", "a", "p", "i", "/", "a", "d", "m", "i", "n">>
        [] s = "/api/audit" -> <<"/", "a", "p", "i", "/", "a", "u", "d", "i", "t">>
        [] s = "/api/judge" -> <<"/", "a", "p", "i", "/", "j", "u", "d", "g", "e">>
        [] s = "/dashboard" -> <<"/", "d", "a", "s", "h", "b", "o", "a", "r", "d">>
        [] s = "/" -> <<"/">>
        [] s = "/supreme-court/cases" -> <<"/", "s", "u", "p", "r", "e", "m", "e", "-", "c", "o", "u", "r", "t", "/", "c", "a", "s", "e", "s">>
        [] s = "/admin/users" -> <<"/", "a", "d", "m", "i", "n", "/", "u", "s", "e", "r", "s">>
        [] s = "/judge/cases" -> <<"/", "j", "u", "d", "g", "e", "/", "c", "a", "s", "e", "s">>
        [] s = "/api/admin/users" -> <<"/", "a", "p", "i", "/", "a", "d", "m", "i", "n", "/", "u", "s", "e", "r", "s">>
        [] s = "/api/audit/logs" -> <<"/", "a", "p", "i", "/", "a", "u", "d", "i", "t", "/", "l", "o", "g", "s">>
        [] s = "/api/judge/cases" -> <<"/", "a", "p", "i", "/", "j", "u", "d", "g", "e", "/", "c", "a", "s", "e", "s">>
        [] s = "/api/cases" -> <<"/", "a", "p", "i", "/", "c", "a", "s", "e", "s">>
        [] s = "Permiso denegado" -> <<"P", "e", "r", "m", "i", "s", "o", " ", "d", "e", "n", "e", "g", "a", "d", "o">>
        [] s = "Permiso denegado: requiere atributo" -> <<"P", "e", "r", "m", "i", "s", "o", " ", "d", "e", "n", "e", "g", "a", "d", "o", ":", " ", "r", "e", "q", "u", "i", "e", "r", "e", " ", "a", "t", "r", "i", "b", "u", "t", "o">>
        [] s = "Accion bloqueada por restriccion" -> <<"A", "c", "c", "i", "o", "n", " ", "b", "l", "o", "q", "u", "e", "a", "d", "a", " ", "p", "o", "r", " ", "r", "e", "s", "t", "r", "i", "c", "c", "i", "o", "n">>
        [] s = "Nivel de seguridad insuficiente para este caso" -> <<"N", "i", "v", "e", "l", " ", "d", "e", " ", "s", "e", "g", "u", "r", "i", "d", "a", "d", " ", "i", "n", "s", "u", "f", "i", "c", "i", "e", "n", "t", "e", " ", "p", "a", "r", "a", " ", "e", "s", "t", "e", " ", "c", "a", "s", "o">>
        [] s = "Acceso permitido" -> <<"A", "c", "c", "e", "s", "o", " ", "p", "e", "r", "m", "i", "t", "i", "d", "o">>
        [] s = "Error del sistema - acceso denegado por seguridad" -> <<"E", "r", "r", "o", "r", " ", "d", "e", "l", " ", "s", "i", "s", "t", "e", "m", "a", " ", "-", " ", "a", "c", "c", "e", "s", "o", " ", "d", "e", "n", "e", "g", "a", "d", "o", " ", "p", "o", "r", " ", "s", "e", "g", "u", "r", "i", "d", "a", "d">>
        [] s = "Missing required attribute" -> <<"M", "i", "s", "s", "i", "n", "g", " ", "r", "e", "q", "u", "i", "r", "e", "d", " ", "a", "t", "t", "r", "i", "b", "u", "t", "e">>
        [] s = "Blocked by restriction" -> <<"B", "l", "o", "c", "k", "e", "d", " ", "b", "y", " ", "r", "e", "s", "t", "r", "i", "c", "t", "i", "o", "n">>
        [] s = "Insufficient clearance for classification" -> <<"I", "n", "s", "u", "f", "f", "i", "c", "i", "e", "n", "t", " ", "c", "l", "e", "a", "r", "a", "n", "c", "e", " ", "f", "o", "r", " ", "c", "l", "a", "s", "s", "i", "f", "i", "c", "a", "t", "i", "o", "n">>
        [] s = "All checks passed" -> <<"A", "l", "l", " ", "c", "h", "e", "c", "k", "s", " ", "p", "a", "s", "s", "e", "d">>
        [] s = "Access decision logged" -> <<"A", "c", "c", "e", "s", "s", " ", "d", "e", "c", "i", "s", "i", "o", "n", " ", "l", "o", "g", "g", "e", "d">>
        [] s = ": " -> <<":", " ">>
        [] s = "..." -> <<".", ".", ".">>
        [] s = "u1" -> <<"u", "1">>
        [] s = "u2" -> <<"u", "2">>
        [] s = "allow" -> <<"a", "l", "l", "o", "w">>
        [] s = "deny" -> <<"d", "e", "n", "y">>
        [] s = "case" -> <<"c", "a", "s", "e">>
        [] s = "cases" -> <<"c", "a", "s", "e", "s">>
        [] s = "audit" -> <<"a", "u", "d", "i", "t">>
        [] s = "public" -> <<"p", "u", "b", "l", "i", "c">>
        [] s = "confidential" -> <<"c", "o", "n", "f", "i", "d", "e", "n", "t", "i", "a", "l">>
        [] s = "secret" -> <<"s", "e", "c", "r", "e", "t">>
        [] s = "top_secret" -> <<"t", "o", "p", "_", "s", "e", "c", "r", "e", "t">>
        [] s = "" -> <<>>
        [] s = "0" -> <<"0">>
        [] s = "-5" -> <<"-", "5">>
        [] s = "abc" -> <<"a", "b", "c">>
        [] s = "7" -> <<"7">>
        [] s = "100" -> <<"1", "0", "0">>
        [] s = "101" -> <<"1", "0", "1">>
        [] s = "1000" -> <<"1", "0", "0", "0">>
        [] s = "1001" -> <<"1", "0", "0", "1">>
        [] s = "12abc" -> <<"1", "2", "a", "b", "c">>
        [] s = " 7" -> <<" ", "7">>
        [] s = "+5" -> <<"+", "5">>
        [] s = "-0" -> <<"-", "0">>
        [] s = "1" -> <<"1">>
        [] s = "20" -> <<"2", "0">>
        [] s = "2024-01-15" -> <<"2", "0", "2", "4", "-", "0", "1", "-", "1", "5">>
        [] s = "2024-1-5" -> <<"2", "0", "2", "4", "-", "1", "-", "5">>
        [] s = "2024-13-45" -> <<"2", "0", "2", "4", "-", "1", "3", "-", "4", "5">>
        [] s = "2024-01-15T00:00" -> <<"2", "0", "2", "4", "-", "0", "1", "-", "1", "5", "T", "0", "0", ":", "0", "0">>
        [] s = "15/01/2024" -> <<"1", "5", "/", "0", "1", "/", "2", "0", "2", "4">>
        [] s = "judge-1" -> <<"j", "u", "d", "g", "e", "-", "1">>
        [] s = "<b>a'; DROP</b>" -> <<"<", "b", ">", "a", "'", ";", " ", "D", "R", "O", "P", "<", "/", "b", ">">>
        [] s = "  x y  " -> <<" ", " ", "x", " ", "y", " ", " ">> ]

Chars(s) == CharsOf[s]

\* String.prototype.startsWith
StartsWith(s, p) ==
    LET a == Chars(s)
        b == Chars(p)
    IN  Len(b) <= Len(a) /\ SubSeq(a, 1, Len(b)) = b

\* String.prototype.includes
Includes(s, p) ==
    LET a == Chars(s)
        b == Chars(p)
    IN  \E i \in 1..(Len(a) + 1) :
            i + Len(b) - 1 <= Len(a) /\ SubSeq(a, i, i + Len(b) - 1) = b

\* SQL: s LIKE 'p%' (p without wildcard characters)
Like(s, p) == StartsWith(s, p)

-----------------------------------------------------------------------------
(* Data.                                                                   *)

\* expires_at IS NULL
NULL_TIME == -1
\* no value (JavaScript null / undefined, SQL NULL)
NULL == "null"

Users == {"u1", "u2"}
\* the user whose grants and role the administrators change
Managed == {"u1"}
Roles == {"admin", "super_admin", "judge", "secretary"}
\* the roles the managed user moves between
RoleInputs == {"admin", "judge"}

\* ACTIONS of the ABAC types, plus three action names the table does not
\* hold: the two the case-detail endpoint asks for, and doc.export
Actions ==
    { "case.create", "case.view", "case.view_details", "case.edit",
      "case.update_status", "case.assign", "case.close", "case.delete",
      "doc.view", "doc.upload", "doc.download", "doc.sign", "doc.delete",
      "user.list", "user.view", "user.create", "user.edit", "user.deactivate",
      "admin.reveal_identity", "admin.abac", "admin.audit",
      "case.details.view", "case.edit.metadata", "doc.export" }

\* the attribute names the administrators grant or revoke in this model
GrantAttrs ==
    { "case.edit.metadata", "admin.vault.reveal_identity",
      "restrict.read_only", "clearance.L4.top_secret" }

\* rows of abac_attributes: category and description by name
abac_attributes(name) ==
    [ name        |-> name,
      category    |-> IF name \in {"restrict.read_only", "restrict.no_export",
                                   "restrict.no_delete"}
                      THEN "restriction"
                      ELSE IF name \in {"clearance.L1.public",
                                        "clearance.L2.confidential",
                                        "clearance.L3.secret",
                                        "clearance.L4.top_secret",
                                        "clearance.special"}
                           THEN "authorization"
                           ELSE "permission",
      description |-> [descriptionOf |-> name] ]

\* a row of user_attributes, with the attribute's name joined in
GrantRow(u, a, e) == [user_id |-> u, name |-> a, expires_at |-> e]

\* grants of the background user u2, present from the start
SeedRows ==
    { GrantRow("u2", "case.edit.metadata", NULL_TIME),
      GrantRow("u2", "case.create", NULL_TIME),
      GrantRow("u2", "clearance.L4.top_secret", NULL_TIME) }

\* .or('expires_at.is.null,expires_at.gt.now()')
Active(row) == row.expires_at = NULL_TIME \/ row.expires_at > now

\* the expires_at values the administrators give a grant
ExpiryInputs == {NULL_TIME, MaxTime}

Classifications == {"public", "confidential", "secret", "top_secret"}

\* an EvaluationContext
Context(u, a, t, c) ==
    [ userId       |-> u,
      action       |-> a,
      resourceType |-> t,
      resourceId   |-> "c1",
      metadata     |-> [classification |-> c] ]

\* the actions put to the evaluator with a classified resource
ClassifiedActions ==
    {"case.edit", "case.edit.metadata", "case.details.view", "admin.reveal_identity"}

\* the EvaluationContext values put to the evaluator: every action on an
\* unclassified resource, and some on a resource with a classification
Contexts ==
    { Context(u, a, "cases", "") : u \in Managed, a \in Actions }
    \cup { Context(u, a, t, c) : u \in Managed, a \in ClassifiedActions,
                                 t \in {"case", "cases"},
                                 c \in {"", "public", "secret"} }

\* faults of the store accesses of one evaluation
StoreFaults == {"none", "client_throw", "attrs_error", "clearance_error", "clearance_throw"}
\* faults of the audit insert: it returns {error}, or the call throws
AuditFaults == {"none", "insert_error", "insert_throw"}

NoOp == [op |-> "none"]

-----------------------------------------------------------------------------
(* The trigger prevent_admin_vault_access on user_attributes.              *)

\* the exception the trigger function raises for (role, attribute), or NULL
check_admin_no_vault_access(user_role, attr_name) ==
    IF user_role = "admin" /\ Like(attr_name, "admin.vault.")
    THEN "SECURITY VIOLATION: Admin role cannot have vault access attributes"
    ELSE IF user_role = "admin"
            /\ attr_name \in {"user.profile.view", "user.create", "user.edit",
                              "user.deactivate"}
    THEN "SECURITY VIOLATION: Admin role cannot have user management attributes"
    ELSE IF user_role = "admin" /\ Like(attr_name, "case.")
            /\ attr_name # "audit.cases.stats"
    THEN "SECURITY VIOLATION: Admin role cannot have case access attributes"
    ELSE NULL

-----------------------------------------------------------------------------
(* ABACEvaluator.                                                          *)

\* getUserAttributes without .eq('user_id', userId)
getUserAttributes_AnyUser(userId, fault) ==
    [ error |-> fault = "attrs_error",
      data  |-> { abac_attributes(r.name) : r \in { x \in user_attributes : Active(x) } } ]

\* getUserAttributes without .or('expires_at.is.null,expires_at.gt.now()')
getUserAttributes_IgnoresExpiry(userId, fault) ==
    [ error |-> fault = "attrs_error",
      data  |-> { abac_attributes(r.name) :
                    r \in { x \in user_attributes : x.user_id = userId } } ]

\* getUserAttributes: {data, error} of the query, flattened
getUserAttributes(userId, fault) ==
    [ error |-> fault = "attrs_error",
      data  |-> { abac_attributes(r.name) :
                    r \in { x \in user_attributes : x.user_id = userId /\ Active(x) } } ]

mapActionToAttribute(action) ==
    CASE action = "case.create"           -> "case.create"
      [] action = "case.view"             -> "case.list.view"
      [] action = "case.view_details"     -> "case.details.view"
      [] action = "case.edit"             -> "case.edit.metadata"
      [] action = "case.update_status"    -> "case.edit.status"
      [] action = "case.assign"           -> "case.assign.judge"
      [] action = "case.close"            -> "case.close"
      [] action = "case.delete"           -> "case.delete"
      [] action = "doc.view"              -> "doc.view"
      [] action = "doc.upload"            -> "doc.upload"
      [] action = "doc.download"          -> "doc.download"
      [] action = "doc.sign"              -> "doc.sign.digital"
      [] action = "doc.delete"            -> "doc.delete"
      [] action = "user.list"             -> "user.list.view"
      [] action = "user.view"             -> "user.profile.view"
      [] action = "user.create"           -> "user.create"
      [] action = "user.edit"             -> "user.edit"
      [] action = "user.deactivate"       -> "user.deactivate"
      [] action = "admin.reveal_identity" -> "admin.vault.reveal_identity"
      [] action = "admin.abac"            -> "admin.abac.manage"
      [] action = "admin.audit"           -> "admin.audit.view"
      [] OTHER                            -> NULL

\* the rules table of restrictionAppliesToAction
rules(restriction) ==
    CASE restriction = "restrict.no_export" -> {"doc.download", "doc.export"}
      [] restriction = "restrict.no_delete" -> {"case.delete", "doc.delete", "user.deactivate"}
      [] restriction = "restrict.read_only" -> {"case.edit", "case.create", "doc.upload", "doc.delete"}
      [] OTHER                              -> {}

\* restrictionAppliesToAction with action === blocked for action.startsWith(blocked)
restrictionAppliesToAction_Exact(restriction, action) ==
    \E blocked \in rules(restriction) : action = blocked

restrictionAppliesToAction(restriction, action) ==
    \E blocked \in rules(restriction) : StartsWith(action, blocked)

\* CLASSIFICATION_LEVELS / requiredLevels[classification] || 1
requiredLevels(classification) ==
    CASE classification = "public"       -> 1
      [] classification = "confidential" -> 2
      [] classification = "secret"       -> 3
      [] classification = "top_secret"   -> 4
      [] OTHER                           -> 1

\* the tier checkClearanceLevel reads from a clearance attribute's name
clearanceTier(name) ==
    IF Includes(name, "L1") THEN 1
    ELSE IF Includes(name, "L2") THEN 2
    ELSE IF Includes(name, "L3") THEN 3
    ELSE IF Includes(name, "L4") THEN 4
    ELSE 0

MaxOf(S) == CHOOSE m \in S : \A x \in S : x <= m

\* the rows of the clearance query; data is null when the query returns an error
clearanceQuery(userId, fault) ==
    [ isNull |-> fault = "clearance_error",
      rows   |-> { r.name : r \in { x \in user_attributes :
                                      /\ x.user_id = userId
                                      /\ Like(x.name, "clearance.")
                                      /\ Active(x) } } ]

\* checkClearanceLevel with maxLevel > requiredLevel for maxLevel >= requiredLevel
checkClearanceLevel_Strict(userId, classification, fault) ==
    LET requiredLevel == requiredLevels(classification)
        q == clearanceQuery(userId, fault)
    IN  IF q.isNull \/ q.rows = {}
        THEN classification = "public"
        ELSE MaxOf({ clearanceTier(n) : n \in q.rows }) > requiredLevel

checkClearanceLevel(userId, classification, fault) ==
    LET requiredLevel == requiredLevels(classification)
        q == clearanceQuery(userId, fault)
    IN  IF q.isNull \/ q.rows = {}
        THEN classification = "public"
        ELSE MaxOf({ clearanceTier(n) : n \in q.rows }) >= requiredLevel

\* the tier hasClearance reads from a clearance attribute's name
hasClearanceTier(name) ==
    IF Includes(name, "L4") THEN 4
    ELSE IF Includes(name, "L3") THEN 3
    ELSE IF Includes(name, "L2") THEN 2
    ELSE IF Includes(name, "L1") THEN 1
    ELSE 0

\* the store faults of a hasClearance call
ClearanceFaults == {"none", "client_throw", "attrs_error"}

\* hasClearance(userId, minLevel): what createClient or getUserAttributes
\* throws is caught and answered false
hasClearance(userId, minLevel, fault) ==
    IF fault = "client_throw" THEN FALSE
    ELSE LET q == getUserAttributes(userId, fault) IN
         IF q.error THEN FALSE
         ELSE LET clearances == { attr \in q.data : StartsWith(attr.name, "clearance.") }
              IN  MaxOf({ hasClearanceTier(attr.name) : attr \in clearances } \cup {0})
                     >= minLevel

\* a reason text: the fixed part of the template and the value put into it
Reason(msg, of) == [msg |-> msg, of |-> of]

\* the row logDecision inserts into policy_enforcement_log
Decision(c, allowed, reason) ==
    [ user_id       |-> c.userId,
      action        |-> c.action,
      resource_type |-> c.resourceType,
      resource_id   |-> c.resourceId,
      result        |-> IF allowed THEN "allow" ELSE "deny",
      reason        |-> reason,
      metadata      |-> c.metadata ]

\* what one run of checkPermission's body yields: the EvaluationResult, the
\* decisions handed to logDecision, the console.error lines, the store
\* accesses that failed, and hasProperClearance ("unset" when step 4 did not run)
Outcome(allowed, reason, policy, checked, decisions, console, failed) ==
    [ allowed           |-> allowed,
      reason            |-> reason,
      policy            |-> policy,
      attributesChecked |-> checked,
      decisions         |-> decisions,
      console           |-> console,
      failed            |-> failed,
      hasProperClearance |-> "unset" ]

\* the catch block of checkPermission
SystemErrorOutcome(console, failed) ==
    Outcome(FALSE, Reason("Error del sistema - acceso denegado por seguridad", NULL),
            NULL, {}, <<>>, console \o <<"[ABAC] Error evaluating permission:">>, failed)

\* checkPermission with the restriction step before the required-attribute step
checkPermission_RestrictionFirst(c, fault) ==
    IF fault = "client_throw"
    THEN { SystemErrorOutcome(<<>>, {"createClient"}) }
    ELSE
    LET q == getUserAttributes(c.userId, fault) IN
    IF q.error
    THEN { SystemErrorOutcome(<<"[ABAC] Error fetching user attributes:">>, {"user_attributes"}) }
    ELSE
    LET userAttributes == q.data
        requiredAttribute == mapActionToAttribute(c.action)
        restrictions == { attr \in userAttributes : attr.category = "restriction" }
        blocking == { r \in restrictions : restrictionAppliesToAction(r.name, c.action) }
        allow == Outcome(TRUE, Reason("Acceso permitido", NULL), NULL,
                         { a.name : a \in userAttributes },
                         << Decision(c, TRUE, Reason("All checks passed", NULL)) >>,
                         <<>>, {})
    IN  IF blocking # {}
        THEN { Outcome(FALSE,
                       Reason("Accion bloqueada por restriccion", r.description),
                       "Restriction Policy", {},
                       << Decision(c, FALSE, Reason("Blocked by restriction", r.name)) >>,
                       <<>>, {}) : r \in blocking }
        ELSE IF requiredAttribute # NULL
           /\ ~ \E attr \in userAttributes : attr.name = requiredAttribute
        THEN { Outcome(FALSE,
                       Reason("Permiso denegado: requiere atributo", requiredAttribute),
                       NULL, {requiredAttribute},
                       << Decision(c, FALSE,
                                   Reason("Missing required attribute", requiredAttribute)) >>,
                       <<>>, {}) }
        ELSE IF c.resourceType = "case" /\ c.metadata.classification # ""
        THEN IF fault = "clearance_throw"
             THEN { SystemErrorOutcome(<<>>, {"clearance"}) }
             ELSE IF ~ checkClearanceLevel(c.userId, c.metadata.classification, fault)
             THEN { [ Outcome(FALSE,
                              Reason("Nivel de seguridad insuficiente para este caso", NULL),
                              "Classification Control", {},
                              << Decision(c, FALSE,
                                          Reason("Insufficient clearance for classification",
                                                 c.metadata.classification)) >>,
                              <<>>,
                              IF fault = "clearance_error" THEN {"clearance"} ELSE {})
                        EXCEPT !.hasProperClearance = "false" ] }
             ELSE { [ allow EXCEPT
                        !.failed = IF fault = "clearance_error" THEN {"clearance"} ELSE {},
                        !.hasProperClearance = "true" ] }
        ELSE { allow }

\* the outcomes of checkPermission(c) under a store fault; more than one
\* when several held restrictions block the action (row order is the store's)
checkPermission(c, fault) ==
    IF fault = "client_throw"
    THEN { SystemErrorOutcome(<<>>, {"createClient"}) }
    ELSE
    LET q == getUserAttributes(c.userId, fault) IN
    IF q.error
    THEN { SystemErrorOutcome(<<"[ABAC] Error fetching user attributes:">>, {"user_attributes"}) }
    ELSE
    LET userAttributes == q.data
        requiredAttribute == mapActionToAttribute(c.action)
        restrictions == { attr \in userAttributes : attr.category = "restriction" }
        blocking == { r \in restrictions : restrictionAppliesToAction(r.name, c.action) }
        allow == Outcome(TRUE, Reason("Acceso permitido", NULL), NULL,
                         { a.name : a \in userAttributes },
                         << Decision(c, TRUE, Reason("All checks passed", NULL)) >>,
                         <<>>, {})
    IN  IF requiredAttribute # NULL
           /\ ~ \E attr \in userAttributes : attr.name = requiredAttribute
        THEN { Outcome(FALSE,
                       Reason("Permiso denegado: requiere atributo", requiredAttribute),
                       NULL, {requiredAttribute},
                       << Decision(c, FALSE,
                                   Reason("Missing required attribute", requiredAttribute)) >>,
                       <<>>, {}) }
        ELSE IF blocking # {}
        THEN { Outcome(FALSE,
                       Reason("Accion bloqueada por restriccion", r.description),
                       "Restriction Policy", {},
                       << Decision(c, FALSE, Reason("Blocked by restriction", r.name)) >>,
                       <<>>, {}) : r \in blocking }
        ELSE IF c.resourceType = "case" /\ c.metadata.classification # ""
        THEN IF fault = "clearance_throw"
             THEN { SystemErrorOutcome(<<>>, {"clearance"}) }
             ELSE IF ~ checkClearanceLevel(c.userId, c.metadata.classification, fault)
             THEN { [ Outcome(FALSE,
                              Reason("Nivel de seguridad insuficiente para este caso", NULL),
                              "Classification Control", {},
                              << Decision(c, FALSE,
                                          Reason("Insufficient clearance for classification",
                                                 c.metadata.classification)) >>,
                              <<>>,
                              IF fault = "clearance_error" THEN {"clearance"} ELSE {})
                        EXCEPT !.hasProperClearance = "false" ] }
             ELSE { [ allow EXCEPT
                        !.failed = IF fault = "clearance_error" THEN {"clearance"} ELSE {},
                        !.hasProperClearance = "true" ] }
        ELSE { allow }

\* logDecision without its try/catch: an error thrown by the insert leaves
\* logDecision
logDecision_NoCatch(decisions, auditFault) ==
    [ log     |-> IF auditFault = "none"
                  THEN policy_enforcement_log \o decisions
                  ELSE policy_enforcement_log,
      console |-> <<>>,
      thrown  |-> decisions # <<>> /\ auditFault = "insert_throw" ]

\* logDecision: the insert is awaited and its result dropped; only a thrown
\* error is caught and reported; nothing is thrown to checkPermission
logDecision(decisions, auditFault) ==
    [ log     |-> IF auditFault = "none"
                  THEN policy_enforcement_log \o decisions
                  ELSE policy_enforcement_log,
      console |-> IF decisions # <<>> /\ auditFault = "insert_throw"
                  THEN <<"[ABAC] Error logging decision:">>
                  ELSE <<>>,
      thrown  |-> FALSE ]

-----------------------------------------------------------------------------
(* Request guards (src/proxy.ts).                                          *)

RATE_LIMIT_WINDOW == 60 * 1000
RATE_LIMIT_MAX_ADMIN == 50
RATE_LIMIT_MAX_GENERAL == 100

\* NextResponse values; headers maps each header the code sets to the number
\* its decimal text denotes
NoHeaders == << >>
PassThrough == [kind |-> "next", status |-> 200, error |-> NULL, headers |-> NoHeaders]
Redirect(to) == [kind |-> "redirect", status |-> 307, error |-> to, headers |-> NoHeaders]
JsonWith(code, error, headers) ==
    [kind |-> "json", status |-> code, error |-> error, headers |-> headers]
Json(code, error) == JsonWith(code, error, NoHeaders)

\* the headers of the 429 of the /api/audit scope of middleware
auditScopeHeaders ==
    [ h \in {"Retry-After", "X-RateLimit-Limit"} |->
        IF h = "Retry-After" THEN 60 ELSE RATE_LIMIT_MAX_ADMIN ]

\* the key `${scope}:${user.id}` of rateLimitMap
RateKey(scope, id) == <<scope, id>>

\* checkRateLimit on the map m at the server clock: the verdict and the map after
checkRateLimit(m, identifier, maxRequests) ==
    IF identifier \notin DOMAIN m \/ clock - m[identifier].timestamp > RATE_LIMIT_WINDOW
    THEN [ allowed |-> TRUE,
           map     |-> [ k \in DOMAIN m \cup {identifier} |->
                           IF k = identifier THEN [count |-> 1, timestamp |-> clock]
                           ELSE m[k] ] ]
    ELSE [ allowed |-> m[identifier].count + 1 <= maxRequests,
           map     |-> [m EXCEPT ![identifier].count = @ + 1] ]

publicRoutes == {"/auth/login", "/auth/signup", "/auth/callback", "/auth/signout"}

\* proxy without the test of profile.status
proxy_IgnoresStatus(pathname, user) ==
    [ rateLimitMap |-> rateLimitMap,
      response |->
        IF \E route \in publicRoutes : StartsWith(pathname, route) THEN PassThrough
        ELSE IF user = NULL THEN Redirect("/auth/login")
        ELSE IF StartsWith(pathname, "/supreme-court") /\ role[user] # "super_admin"
        THEN Redirect("/")
        ELSE IF StartsWith(pathname, "/admin")
                /\ role[user] # "admin" /\ role[user] # "super_admin"
        THEN Redirect("/unauthorized")
        ELSE IF StartsWith(pathname, "/judge") /\ role[user] # "judge"
        THEN Redirect("/")
        ELSE IF StartsWith(pathname, "/api/admin") /\ role[user] # "super_admin"
        THEN Json(403, "Forbidden - Super Admin access required")
        ELSE IF StartsWith(pathname, "/api/audit")
                /\ role[user] # "admin" /\ role[user] # "super_admin"
        THEN Json(403, "Forbidden - Admin access required")
        ELSE IF StartsWith(pathname, "/api/judge")
                /\ role[user] # "judge" /\ role[user] # "secretary"
        THEN Json(403, "Forbidden - Judge access required")
        ELSE PassThrough ]

\* proxy(request): the response of the guard for a session user (NULL when
\* the request carries no session); it does not touch rateLimitMap
proxy(pathname, user) ==
    [ rateLimitMap |-> rateLimitMap,
      response |->
        IF \E route \in publicRoutes : StartsWith(pathname, route) THEN PassThrough
        ELSE IF user = NULL THEN Redirect("/auth/login")
        ELSE IF status[user] # "active" THEN Redirect("/auth/login?error=account_inactive")
        ELSE IF StartsWith(pathname, "/supreme-court") /\ role[user] # "super_admin"
        THEN Redirect("/")
        ELSE IF StartsWith(pathname, "/admin")
                /\ role[user] # "admin" /\ role[user] # "super_admin"
        THEN Redirect("/unauthorized")
        ELSE IF StartsWith(pathname, "/judge") /\ role[user] # "judge"
        THEN Redirect("/")
        ELSE IF StartsWith(pathname, "/api/admin") /\ role[user] # "super_admin"
        THEN Json(403, "Forbidden - Super Admin access required")
        ELSE IF StartsWith(pathname, "/api/audit")
                /\ role[user] # "admin" /\ role[user] # "super_admin"
        THEN Json(403, "Forbidden - Admin access required")
        ELSE IF StartsWith(pathname, "/api/judge")
                /\ role[user] # "judge" /\ role[user] # "secretary"
        THEN Json(403, "Forbidden - Judge access required")
        ELSE PassThrough ]

\* middleware(request): the response of the guard and rateLimitMap after it
middleware(pathname, user) ==
    IF StartsWith(pathname, "/admin")
    THEN IF user = NULL
         THEN [rateLimitMap |-> rateLimitMap, response |-> Redirect("/auth/login")]
         ELSE LET rl == checkRateLimit(rateLimitMap, RateKey("admin", user),
                                       RATE_LIMIT_MAX_ADMIN)
              IN  [ rateLimitMap |-> rl.map,
                    response |->
                      IF ~ rl.allowed THEN Json(429, "Too many requests")
                      ELSE IF status[user] # "active" THEN Redirect("/unauthorized")
                      ELSE IF role[user] # "admin" /\ role[user] # "super_admin"
                      THEN Redirect("/unauthorized")
                      ELSE PassThrough ]
    ELSE IF StartsWith(pathname, "/api/audit")
    THEN IF user = NULL
         THEN [rateLimitMap |-> rateLimitMap, response |-> Json(401, "Authentication required")]
         ELSE LET rl == checkRateLimit(rateLimitMap, RateKey("audit-api", user),
                                       RATE_LIMIT_MAX_ADMIN)
              IN  [ rateLimitMap |-> rl.map,
                    response |-> IF ~ rl.allowed
                                 THEN JsonWith(429, "Too many requests", auditScopeHeaders)
                                 ELSE PassThrough ]
    ELSE IF StartsWith(pathname, "/dashboard")
    THEN IF user = NULL
         THEN [rateLimitMap |-> rateLimitMap, response |-> Redirect("/auth/login")]
         ELSE LET rl == checkRateLimit(rateLimitMap, RateKey("dashboard", user),
                                       RATE_LIMIT_MAX_GENERAL)
              IN  [ rateLimitMap |-> rl.map,
                    response |-> IF ~ rl.allowed THEN Json(429, "Too many requests")
                                 ELSE PassThrough ]
    ELSE IF StartsWith(pathname, "/api/admin")
    THEN IF user = NULL
         THEN [rateLimitMap |-> rateLimitMap, response |-> Json(401, "Authentication required")]
         ELSE LET rl == checkRateLimit(rateLimitMap, RateKey("api-admin", user),
                                       RATE_LIMIT_MAX_GENERAL)
              IN  [ rateLimitMap |-> rl.map,
                    response |-> IF ~ rl.allowed THEN Json(429, "Too many requests")
                                 ELSE PassThrough ]
    ELSE [rateLimitMap |-> rateLimitMap, response |-> PassThrough]

-----------------------------------------------------------------------------
(* GET /api/admin/cases/[id] (src/unnamed/part_006).                       *)

CaseIds == {"c1", "c2"}
Paths == {"/api/admin/cases/c1", "/api/admin/cases/c2"}

\* params.id of a path under /api/admin/cases/
CaseIdOf(pathname) ==
    LET a == Chars(pathname)
        n == Len(Chars("/api/admin/cases/"))
    IN  CHOOSE id \in CaseIds : Chars(id) = SubSeq(a, n + 1, Len(a))

\* .single(): the row when the query matches exactly one, else null
Single(rows) ==
    IF Cardinality(rows) = 1
    THEN [isNull |-> FALSE, row |-> CHOOSE r \in rows : TRUE]
    ELSE [isNull |-> TRUE, row |-> NULL]

\* IdentityVaultService.resolveIdentity(anonId, callerId): the user behind the
\* pseudonym, null when the pseudonym is unknown or the caller has no right to
\* reveal identities
resolveIdentity(anonId, callerId) ==
    LET known == { m \in identity_mapping : m.anon_id = anonId }
        entitled == \E r \in user_attributes :
                        /\ r.user_id = callerId
                        /\ r.name = "admin.vault.reveal_identity"
                        /\ Active(r)
    IN  IF known = {} \/ ~ entitled
        THEN NULL
        ELSE (CHOOSE m \in known : TRUE).user_id

\* events of one request, in the order they happen
CheckEvent(userId, action, allowed) ==
    [kind |-> "checkPermission", userId |-> userId, action |-> action, allowed |-> allowed]
VaultEvent(anonId, callerId, result) ==
    [kind |-> "resolveIdentity", userId |-> callerId, action |-> anonId, allowed |-> result # NULL]
ReadEvent(table, id) ==
    [kind |-> "read", userId |-> NULL, action |-> table, allowed |-> TRUE]

\* what the handler yields: its response, the decisions handed to logDecision
\* by the evaluator, the events, and the judge identity put into the body
Handled(response, decisions, events, assignedJudgeId) ==
    [ response |-> response, decisions |-> decisions, events |-> events,
      assignedJudgeId |-> assignedJudgeId ]

\* the outcomes of GET for a session user and a case id under a store fault
GET(caseId, user, fault) ==
    IF user = NULL
    THEN { Handled(Json(401, "Unauthorized"), <<>>, <<>>, NULL) }
    ELSE
    { LET checked == << CheckEvent(user, "case.details.view", out.allowed) >>
          caseItem == Single({ c \in cases : c.id = caseId })
          assignment == Single({ a \in case_assignments : a.case_id = caseId })
      IN  IF ~ out.allowed
          THEN \* enforcePermission throws Error(result.reason)
               IF Includes(out.reason.msg, "Permiso denegado")
               THEN Handled(Json(403, out.reason.msg), out.decisions, checked, NULL)
               ELSE Handled(Json(500, "Internal server error"), out.decisions, checked, NULL)
          ELSE IF caseItem.isNull
          THEN Handled(Json(404, "Caso no encontrado"), out.decisions,
                       checked \o << ReadEvent("cases", caseId) >>, NULL)
          ELSE IF assignment.isNull
          THEN Handled(Json(200, NULL), out.decisions,
                       checked \o << ReadEvent("cases", caseId) >>, NULL)
          ELSE LET identityResult == resolveIdentity(assignment.row.anon_actor_id, user)
               IN  Handled(Json(200, NULL), out.decisions,
                           checked \o << ReadEvent("cases", caseId),
                                         VaultEvent(assignment.row.anon_actor_id, user,
                                                    identityResult) >>,
                           identityResult)
      : out \in checkPermission([Context(user, "case.details.view", "cases", "")
                                    EXCEPT !.resourceId = caseId], fault) }

UpdateEvent(table, id) ==
    [kind |-> "update", userId |-> NULL, action |-> table, allowed |-> TRUE]

\* the status a PATCH body may carry; NULL when the body names other columns
BodyStatuses == {NULL, "closed"}

\* .update(updateData).eq('id', caseId) on cases; the rows keep id and status
UpdateCase(caseId, bodyStatus) ==
    { IF c.id = caseId /\ bodyStatus # NULL THEN [c EXCEPT !.status = bodyStatus] ELSE c :
        c \in cases }

\* the outcomes of PATCH for a session user, a case id and a body under a
\* store fault, each with the table cases after it
PATCH(caseId, user, bodyStatus, fault) ==
    IF user = NULL
    THEN { [ handled |-> Handled(Json(401, "Unauthorized"), <<>>, <<>>, NULL),
             cases |-> cases ] }
    ELSE
    { LET checked == << CheckEvent(user, "case.edit.metadata", out.allowed) >>
      IN  IF ~ out.allowed
          THEN [ handled |->
                   IF Includes(out.reason.msg, "Permiso denegado")
                   THEN Handled(Json(403, out.reason.msg), out.decisions, checked, NULL)
                   ELSE Handled(Json(500, "Internal server error"), out.decisions,
                                checked, NULL),
                 cases |-> cases ]
          ELSE [ handled |-> Handled(Json(200, NULL), out.decisions,
                                     checked \o << UpdateEvent("cases", caseId) >>, NULL),
                 cases |-> UpdateCase(caseId, bodyStatus) ]
      : out \in checkPermission([Context(user, "case.edit.metadata", "cases", "")
                                    EXCEPT !.resourceId = caseId], fault) }

-----------------------------------------------------------------------------
(* Ephemeral credentials and the judge case page                           *)
(* (src/app/judge/cases/[id]/page.tsx).                                    *)

Tokens == {"t1"}
\* the values a case_access cookie carries: none, a token that was issued (a
\* token cannot be guessed before it is issued), or a value that is no token
CookieValues == {NULL, "forged"} \cup DOMAIN ephemeral_credentials
Pages == 1..MaxCalls
\* the case ids in the URL of the page: c1 and c2 name cases, c3 names none
PageCaseIds == {"c1", "c2", "c3"}

NoTokenInfo == [isNull |-> TRUE, caseId |-> NULL]

\* EphemeralCredentialsService.validateToken without the test of used_at
validate_IgnoresUsedAt(token) ==
    IF token \in DOMAIN ephemeral_credentials
       /\ ephemeral_credentials[token].expires_at > now
    THEN [ tokenInfo |-> [isNull |-> FALSE, caseId |-> ephemeral_credentials[token].case_id],
           table     |-> [ephemeral_credentials EXCEPT ![token].used_at = now] ]
    ELSE [ tokenInfo |-> NoTokenInfo, table |-> ephemeral_credentials ]

\* EphemeralCredentialsService.validateToken(token): one conditional update,
\* SET used_at = now() WHERE used_at IS NULL AND expires_at > now()
validate(token) ==
    IF token \in DOMAIN ephemeral_credentials
       /\ ephemeral_credentials[token].used_at = NULL_TIME
       /\ ephemeral_credentials[token].expires_at > now
    THEN [ tokenInfo |-> [isNull |-> FALSE, caseId |-> ephemeral_credentials[token].case_id],
           table     |-> [ephemeral_credentials EXCEPT ![token].used_at = now] ]
    ELSE [ tokenInfo |-> NoTokenInfo, table |-> ephemeral_credentials ]

\* IdentityVaultService.verifyAccess(subjectId, caseId): a pseudonym links the
\* subject to the case through an assignment
verifyAccess(subjectId, caseId) ==
    \E m \in identity_mapping :
        /\ m.user_id = subjectId
        /\ m.case_id = caseId
        /\ \E a \in case_assignments : a.case_id = caseId /\ a.anon_actor_id = m.anon_id

IdlePage == [pc |-> "idle", user |-> NULL, caseId |-> NULL, token |-> NULL,
             view |-> NULL, tokenInfo |-> NoTokenInfo, at |-> NULL_TIME]

\* a render that ended with the given view
Rendered(user, caseId, view) ==
    [IdlePage EXCEPT !.pc = "done", !.user = user, !.caseId = caseId, !.view = view]

\* JudgeCasePage answering "forbidden" for a case that exists when
\* verifyAccess fails
JudgeCasePage_Forbidden(user, caseId, cookie) ==
    LET caseMetadata == Single({ c \in cases : c.id = caseId }) IN
    IF user = NULL THEN Rendered(user, caseId, "redirect:/auth/login")
    ELSE IF ~ verifyAccess(user, caseId)
    THEN Rendered(user, caseId, IF caseMetadata.isNull THEN "notFound" ELSE "forbidden")
    ELSE IF caseMetadata.isNull THEN Rendered(user, caseId, "notFound")
    ELSE IF caseMetadata.row.status \in {"dictaminado", "cerrado"}
    THEN Rendered(user, caseId, "Caso Cerrado")
    ELSE IF cookie = NULL THEN Rendered(user, caseId, "TokenForm")
    ELSE [IdlePage EXCEPT !.pc = "validateToken", !.user = user, !.caseId = caseId,
                          !.token = cookie]

\* JudgeCasePage up to the call of validateToken
JudgeCasePage(user, caseId, cookie) ==
    LET caseMetadata == Single({ c \in cases : c.id = caseId }) IN
    IF user = NULL THEN Rendered(user, caseId, "redirect:/auth/login")
    ELSE IF ~ verifyAccess(user, caseId) THEN Rendered(user, caseId, "notFound")
    ELSE IF caseMetadata.isNull THEN Rendered(user, caseId, "notFound")
    ELSE IF caseMetadata.row.status \in {"dictaminado", "cerrado"}
    THEN Rendered(user, caseId, "Caso Cerrado")
    ELSE IF cookie = NULL THEN Rendered(user, caseId, "TokenForm")
    ELSE [IdlePage EXCEPT !.pc = "validateToken", !.user = user, !.caseId = caseId,
                          !.token = cookie]

-----------------------------------------------------------------------------
(* Operations.                                                             *)

\* INSERT INTO user_attributes, through the BEFORE INSERT trigger
InsertGrant(u, a, e) ==
    /\ last.op = "none"
    /\ ~ \E r \in user_attributes : r.user_id = u /\ r.name = a
    /\ LET raised == check_admin_no_vault_access(role[u], a) IN
       IF raised # NULL
       THEN /\ user_attributes' = user_attributes
            /\ last' = [op |-> "insert", raised |-> raised, row |-> GrantRow(u, a, e)]
       ELSE /\ user_attributes' = user_attributes \cup {GrantRow(u, a, e)}
            /\ last' = NoOp
    /\ UNCHANGED <<role, now, policy_enforcement_log, ctx, platformVars>>

\* UPDATE user_attributes SET expires_at, through the BEFORE UPDATE trigger
UpdateGrant(old, e) ==
    /\ last.op = "none"
    /\ old \in user_attributes
    /\ old.expires_at # e
    /\ LET raised == check_admin_no_vault_access(role[old.user_id], old.name) IN
       IF raised # NULL
       THEN /\ user_attributes' = user_attributes
            /\ last' = [op |-> "update", raised |-> raised,
                        row |-> GrantRow(old.user_id, old.name, e)]
       ELSE /\ user_attributes' =
                  (user_attributes \ {old}) \cup {GrantRow(old.user_id, old.name, e)}
            /\ last' = NoOp
    /\ UNCHANGED <<role, now, policy_enforcement_log, ctx, platformVars>>

\* DELETE FROM user_attributes: a grant is revoked
DeleteGrant(old) ==
    /\ last.op = "none"
    /\ old \in user_attributes
    /\ user_attributes' = user_attributes \ {old}
    /\ UNCHANGED <<role, now, policy_enforcement_log, ctx, last, platformVars>>

\* UPDATE users_profile SET role: no trigger looks at the grants the user holds
ChangeRole(u, r) ==
    /\ last.op = "none"
    /\ role[u] # r
    /\ role' = [role EXCEPT ![u] = r]
    /\ UNCHANGED <<user_attributes, now, policy_enforcement_log, ctx, last, platformVars>>

\* the database clock advances between two operations
Tick ==
    /\ last.op = "none"
    /\ now < MaxTime
    /\ now' = now + 1
    /\ UNCHANGED <<role, user_attributes, policy_enforcement_log, ctx, last, platformVars>>

\* checkPermission from the point where the insert of logDecision has settled
\* with auditFault: the table after the insert and the value handed back
AfterInsert(body, auditFault) ==
    LET w == logDecision(body.decisions, auditFault)
        \* an error thrown inside the try block ends in the catch block
        out == IF w.thrown
               THEN [ SystemErrorOutcome(body.console, body.failed)
                        EXCEPT !.decisions = body.decisions ]
               ELSE body
    IN [ log  |-> w.log,
         last |-> [ op       |-> "checkPermission",
                    result   |-> [ allowed           |-> out.allowed,
                                   reason            |-> out.reason,
                                   policy            |-> out.policy,
                                   attributesChecked |-> out.attributesChecked ],
                    appends  |-> out.decisions,
                    appended |-> out.decisions # <<>> /\ auditFault = "none",
                    console  |-> out.console \o w.console,
                    failed   |-> out.failed,
                    hasProperClearance |-> out.hasProperClearance ] ]

\* evaluator.checkPermission(ctx), with the audit insert of logDecision
CheckPermission(fault, auditFault) ==
    /\ last.op = "none"
    /\ Len(policy_enforcement_log) < MaxLog
    /\ \E body \in checkPermission(ctx, fault) :
          /\ policy_enforcement_log' = AfterInsert(body, auditFault).log
          /\ last' = AfterInsert(body, auditFault).last
    /\ UNCHANGED <<role, user_attributes, now, ctx, platformVars>>

\* checkPermission up to the await of the insert in logDecision; the catch
\* block returns without calling logDecision
CheckPermissionBegin(fault) ==
    /\ last.op = "none"
    /\ Len(policy_enforcement_log) < MaxLog
    /\ \E body \in checkPermission(ctx, fault) :
          last' = IF body.decisions = <<>>
                  THEN AfterInsert(body, "none").last
                  ELSE [op |-> "awaitInsert", body |-> body]
    /\ UNCHANGED <<role, user_attributes, now, policy_enforcement_log, ctx, platformVars>>

\* the store settles the awaited insert: the row is written, an error result
\* is returned, or the promise rejects
InsertSettles(auditFault) ==
    /\ last.op = "awaitInsert"
    /\ policy_enforcement_log' = AfterInsert(last.body, auditFault).log
    /\ last' = [op |-> "insertSettled", next |-> AfterInsert(last.body, auditFault).last]
    /\ UNCHANGED <<role, user_attributes, now, ctx, platformVars>>

\* the continuation of the await runs and checkPermission returns
CheckPermissionResume ==
    /\ last.op = "insertSettled"
    /\ last' = last.next
    /\ UNCHANGED <<role, user_attributes, now, policy_enforcement_log, ctx, platformVars>>

\* the caller takes the outcome of a finished operation
\* a call of hasClearance for the subject of ctx
HasClearance(minLevel, fault) ==
    /\ last.op = "none"
    /\ last' = [ op |-> "hasClearance", userId |-> ctx.userId, minLevel |-> minLevel,
                 fault |-> fault, result |-> hasClearance(ctx.userId, minLevel, fault) ]
    /\ UNCHANGED <<role, user_attributes, now, policy_enforcement_log, ctx, platformVars>>

Respond ==
    /\ last.op \in {"insert", "update", "checkPermission", "hasClearance"}
    /\ last' = NoOp
    /\ UNCHANGED <<role, user_attributes, now, policy_enforcement_log, ctx, platformVars>>

\* one HTTP request through a guard to the handler of its path
Request(g, user, pathname, fault, auditFault) ==
    /\ last.op = "none"
    /\ http.op = "none"
    /\ requests < MaxRequests
    /\ Len(policy_enforcement_log) < MaxLog
    /\ LET v == IF g = "proxy" THEN proxy(pathname, user) ELSE middleware(pathname, user) IN
       /\ rateLimitMap' = v.rateLimitMap
       /\ IF v.response.kind # "next"
          THEN /\ http' = [ op |-> "request", method |-> "GET", guard |-> g, user |-> user,
                            pathname |-> pathname, handled |-> FALSE,
                            response |-> v.response, events |-> <<>>,
                            assignedJudgeId |-> NULL ]
               /\ UNCHANGED policy_enforcement_log
          ELSE \E h \in GET(CaseIdOf(pathname), user, fault) :
                  /\ policy_enforcement_log' = logDecision(h.decisions, auditFault).log
                  /\ http' = [ op |-> "request", method |-> "GET", guard |-> g, user |-> user,
                               pathname |-> pathname, handled |-> TRUE,
                               response |-> h.response, events |-> h.events,
                               assignedJudgeId |-> h.assignedJudgeId ]
    /\ requests' = requests + 1
    /\ UNCHANGED <<role, user_attributes, now, ctx, last, status, cases, case_assignments,
                   identity_mapping, auditVars, clock, ephemeral_credentials, pages>>

\* a PATCH request passes a guard and, when let through, the handler
RequestPatch(g, user, pathname, bodyStatus, fault, auditFault) ==
    /\ last.op = "none"
    /\ http.op = "none"
    /\ requests < MaxRequests
    /\ Len(policy_enforcement_log) < MaxLog
    /\ LET v == IF g = "proxy" THEN proxy(pathname, user) ELSE middleware(pathname, user) IN
       /\ rateLimitMap' = v.rateLimitMap
       /\ IF v.response.kind # "next"
          THEN /\ http' = [ op |-> "request", method |-> "PATCH", guard |-> g, user |-> user,
                            pathname |-> pathname, handled |-> FALSE,
                            response |-> v.response, events |-> <<>>,
                            assignedJudgeId |-> NULL ]
               /\ UNCHANGED <<policy_enforcement_log, cases>>
          ELSE \E h \in PATCH(CaseIdOf(pathname), user, bodyStatus, fault) :
                  /\ policy_enforcement_log' = logDecision(h.handled.decisions, auditFault).log
                  /\ cases' = h.cases
                  /\ http' = [ op |-> "request", method |-> "PATCH", guard |-> g, user |-> user,
                               pathname |-> pathname, handled |-> TRUE,
                               response |-> h.handled.response, events |-> h.handled.events,
                               assignedJudgeId |-> NULL ]
    /\ requests' = requests + 1
    /\ UNCHANGED <<role, user_attributes, now, ctx, last, status, case_assignments,
                   identity_mapping, auditVars, clock, ephemeral_credentials, pages>>

\* the response is sent
RespondHttp ==
    /\ http.op # "none"
    /\ http' = NoOp
    /\ UNCHANGED <<role, user_attributes, now, policy_enforcement_log, ctx, last, status,
                   cases, case_assignments, identity_mapping, auditVars, rateLimitMap, clock, requests,
                   ephemeral_credentials, pages>>

\* the server clock advances by d milliseconds between two requests
Advance(d) ==
    /\ http.op = "none"
    /\ clock + d <= MaxWindows * RATE_LIMIT_WINDOW + 1
    /\ clock' = clock + d
    /\ UNCHANGED <<role, user_attributes, now, policy_enforcement_log, ctx, last, status,
                   cases, case_assignments, identity_mapping, auditVars, rateLimitMap, http, requests,
                   ephemeral_credentials, pages>>

\* issue(caseId, issuedTo, ttl): a credential with expires_at = now + ttl
Issue(token, caseId, issuedTo, ttl) ==
    /\ token \notin DOMAIN ephemeral_credentials
    /\ ephemeral_credentials' =
          [ t \in DOMAIN ephemeral_credentials \cup {token} |->
              IF t = token
              THEN [case_id |-> caseId, user_id |-> issuedTo, created_at |-> now,
                    expires_at |-> now + ttl, used_at |-> NULL_TIME]
              ELSE ephemeral_credentials[t] ]
    /\ UNCHANGED <<role, user_attributes, now, policy_enforcement_log, ctx, last, status,
                   cases, case_assignments, identity_mapping, auditVars, rateLimitMap, clock, http,
                   requests, pages>>

\* a render of JudgeCasePage starts and runs to its validateToken call, or ends
PageBegin(p, user, caseId, cookie) ==
    /\ pages[p].pc = "idle"
    /\ pages' = [pages EXCEPT ![p] = JudgeCasePage(user, caseId, cookie)]
    /\ UNCHANGED <<role, user_attributes, now, policy_enforcement_log, ctx, last, status,
                   cases, case_assignments, identity_mapping, auditVars, rateLimitMap, clock, http,
                   requests, ephemeral_credentials>>

\* PageValidate without the comparison of tokenInfo.caseId with the case of the page
PageValidate_AnyCase(p) ==
    /\ pages[p].pc = "validateToken"
    /\ LET r == validate(pages[p].token)
           isUnlocked == ~ r.tokenInfo.isNull
       IN  /\ ephemeral_credentials' = r.table
           /\ pages' = [pages EXCEPT ![p].pc = "done",
                                     ![p].tokenInfo = r.tokenInfo,
                                     ![p].at = now,
                                     ![p].view = IF isUnlocked THEN "CaseView"
                                                 ELSE "TokenForm"]
    /\ UNCHANGED <<role, user_attributes, now, policy_enforcement_log, ctx, last, status,
                   cases, case_assignments, identity_mapping, auditVars, rateLimitMap, clock, http,
                   requests>>

\* the validateToken call of a render, and the rest of the render
PageValidate(p) ==
    /\ pages[p].pc = "validateToken"
    /\ LET r == validate(pages[p].token)
           isUnlocked == ~ r.tokenInfo.isNull /\ r.tokenInfo.caseId = pages[p].caseId
       IN  /\ ephemeral_credentials' = r.table
           /\ pages' = [pages EXCEPT ![p].pc = "done",
                                     ![p].tokenInfo = r.tokenInfo,
                                     ![p].at = now,
                                     ![p].view = IF isUnlocked THEN "CaseView"
                                                 ELSE "TokenForm"]
    /\ UNCHANGED <<role, user_attributes, now, policy_enforcement_log, ctx, last, status,
                   cases, case_assignments, identity_mapping, auditVars, rateLimitMap, clock, http,
                   requests>>

\* the tables and processes of the platform before any request
-----------------------------------------------------------------------------
(* The rate limiter of the audit endpoints (lib/vault/middleware).         *)

RATE_LIMIT_WINDOW_MS == 60 * 1000
ADMIN_RATE_LIMIT == 50

\* the key `rate:${identifier}` of rateLimitStore
StoreKey(identifier) == <<"rate", identifier>>

\* checkRateLimit in which every request of the window moves resetAt
vault_checkRateLimit_Sliding(store, identifier, maxRequests) ==
    LET key == StoreKey(identifier) IN
    IF key \notin DOMAIN store \/ store[key].resetAt < clock
    THEN [ allowed   |-> TRUE,
           remaining |-> maxRequests - 1,
           resetIn   |-> RATE_LIMIT_WINDOW_MS,
           store     |-> [ k \in DOMAIN store \cup {key} |->
                             IF k = key
                             THEN [count |-> 1, resetAt |-> clock + RATE_LIMIT_WINDOW_MS]
                             ELSE store[k] ] ]
    ELSE LET count == store[key].count + 1 IN
         [ allowed   |-> count <= maxRequests,
           remaining |-> MaxOf({0, maxRequests - count}),
           resetIn   |-> RATE_LIMIT_WINDOW_MS,
           store     |-> [store EXCEPT ![key] =
                             [count |-> count, resetAt |-> clock + RATE_LIMIT_WINDOW_MS]] ]

\* the same checkRateLimit without the increment of the counter
vault_checkRateLimit_NoIncrement(store, identifier, maxRequests) ==
    LET key == StoreKey(identifier) IN
    IF key \notin DOMAIN store \/ store[key].resetAt < clock
    THEN [ allowed   |-> TRUE,
           remaining |-> maxRequests - 1,
           resetIn   |-> RATE_LIMIT_WINDOW_MS,
           store     |-> [ k \in DOMAIN store \cup {key} |->
                             IF k = key
                             THEN [count |-> 1, resetAt |-> clock + RATE_LIMIT_WINDOW_MS]
                             ELSE store[k] ] ]
    ELSE [ allowed   |-> store[key].count <= maxRequests,
           remaining |-> MaxOf({0, maxRequests - store[key].count}),
           resetIn   |-> store[key].resetAt - clock,
           store     |-> store ]

\* checkRateLimit of lib/vault/middleware on the store at the server clock:
\* the returned object and the store after the call
vault_checkRateLimit(store, identifier, maxRequests) ==
    LET key == StoreKey(identifier) IN
    IF key \notin DOMAIN store \/ store[key].resetAt < clock
    THEN [ allowed   |-> TRUE,
           remaining |-> maxRequests - 1,
           resetIn   |-> RATE_LIMIT_WINDOW_MS,
           store     |-> [ k \in DOMAIN store \cup {key} |->
                             IF k = key
                             THEN [count |-> 1, resetAt |-> clock + RATE_LIMIT_WINDOW_MS]
                             ELSE store[k] ] ]
    ELSE LET count == store[key].count + 1 IN
         [ allowed   |-> count <= maxRequests,
           remaining |-> MaxOf({0, maxRequests - count}),
           resetIn   |-> store[key].resetAt - clock,
           store     |-> [store EXCEPT ![key].count = count] ]

\* DATE(created_at): the day of an instant
DATE(t) == t \div TicksPerDay

\* the view audit_token_stats at the instant now: one row for each day on
\* which a credential was created
audit_token_stats ==
    LET created(d) == { t \in DOMAIN ephemeral_credentials :
                          DATE(ephemeral_credentials[t].created_at) = d }
        unused(d)  == { t \in created(d) : ephemeral_credentials[t].used_at = NULL_TIME }
    IN  { [ date |-> d,
            tokens_emitted |-> Cardinality(created(d)),
            tokens_used |-> Cardinality(created(d) \ unused(d)),
            tokens_expired_unused |->
                Cardinality({ t \in unused(d) : ephemeral_credentials[t].expires_at < now }),
            tokens_pending |->
                Cardinality({ t \in unused(d) : ephemeral_credentials[t].expires_at > now }) ] :
          d \in { DATE(ephemeral_credentials[t].created_at) :
                    t \in DOMAIN ephemeral_credentials } }

\* the summary GET /api/audit/tokens adds up over the rows of the view
RECURSIVE summary(_)
summary(tokenStats) ==
    IF tokenStats = {}
    THEN [totalEmitted |-> 0, totalUsed |-> 0, totalExpiredUnused |-> 0, totalPending |-> 0]
    ELSE LET day == CHOOSE r \in tokenStats : TRUE
             acc == summary(tokenStats \ {day})
         IN  [ totalEmitted |-> acc.totalEmitted + day.tokens_emitted,
               totalUsed |-> acc.totalUsed + day.tokens_used,
               totalExpiredUnused |-> acc.totalExpiredUnused + day.tokens_expired_unused,
               totalPending |-> acc.totalPending + day.tokens_pending ]

\* getRateLimitHeaders(remaining, resetIn): Math.ceil(resetIn / 1000) seconds
getRateLimitHeaders(remaining, resetIn) ==
    [ h \in {"X-RateLimit-Remaining", "X-RateLimit-Reset"} |->
        IF h = "X-RateLimit-Remaining" THEN remaining
        ELSE (resetIn + 999) \div 1000 ]

\* the limits passed to checkRateLimit
Limits == 1..MaxLimit

\* one call of checkRateLimit as rateCalls keeps it
RateCall(impl, identifier, maxRequests, allowed, count, opened) ==
    [ impl |-> impl, identifier |-> identifier, maxRequests |-> maxRequests,
      at |-> clock, allowed |-> allowed, count |-> count, opened |-> opened ]

\* a key is always checked against the same limit, and the two limiters,
\* which share no state, are called in separate runs
SameLimit(impl, identifier, maxRequests) ==
    \A i \in 1..Len(rateCalls) :
        /\ rateCalls[i].impl = impl
        /\ rateCalls[i].identifier = identifier => rateCalls[i].maxRequests = maxRequests

\* checkRateLimit(identifier, maxRequests) of lib/vault/middleware
VaultRateCall(identifier, maxRequests) ==
    /\ Len(rateCalls) < MaxRateCalls
    /\ SameLimit("vault", identifier, maxRequests)
    /\ LET v == vault_checkRateLimit(rateLimitStore, identifier, maxRequests)
           rec == v.store[StoreKey(identifier)]
       IN /\ rateLimitStore' = v.store
          /\ rateCalls' = Append(rateCalls,
                RateCall("vault", identifier, maxRequests, v.allowed, rec.count,
                         rec.resetAt - RATE_LIMIT_WINDOW_MS))
    /\ UNCHANGED <<role, user_attributes, now, policy_enforcement_log, ctx, last, status,
                   cases, case_assignments, identity_mapping, rateLimitMap, clock, http,
                   requests, ephemeral_credentials, pages, audit_access_log, handlers>>

\* checkRateLimit(identifier, maxRequests) of proxy.ts
ProxyRateCall(identifier, maxRequests) ==
    /\ Len(rateCalls) < MaxRateCalls
    /\ SameLimit("proxy", identifier, maxRequests)
    /\ LET v == checkRateLimit(rateLimitMap, RateKey("audit-api", identifier), maxRequests)
           rec == v.map[RateKey("audit-api", identifier)]
       IN /\ rateLimitMap' = v.map
          /\ rateCalls' = Append(rateCalls,
                RateCall("proxy", identifier, maxRequests, v.allowed, rec.count,
                         rec.timestamp))
    /\ UNCHANGED <<role, user_attributes, now, policy_enforcement_log, ctx, last, status,
                   cases, case_assignments, identity_mapping, clock, http, requests,
                   ephemeral_credentials, pages, rateLimitStore, audit_access_log, handlers>>

\* the server clock advances by d milliseconds between two calls
Elapse(d) ==
    /\ clock + d <= MaxRateWindows * (RATE_LIMIT_WINDOW + 1)
    /\ clock' = clock + d
    /\ UNCHANGED <<role, user_attributes, now, policy_enforcement_log, ctx, last, status,
                   cases, case_assignments, identity_mapping, auditVars, rateLimitMap, http,
                   requests, ephemeral_credentials, pages>>

-----------------------------------------------------------------------------
(* The view audit_logs_sanitized (016_admin_audit_complete.sql).           *)

\* MD5(text), as 32 hexadecimal characters, of the user ids of the model
MD5(text) ==
    CASE text = "u1" -> <<"e", "4", "7", "7", "4", "c", "d", "d", "a", "0", "7", "9", "3", "f", "8", "6", "4", "1", "4", "e", "8", "b", "9", "1", "4", "0", "b", "b", "6", "d", "b", "4">>
      [] text = "u2" -> <<"2", "7", "0", "c", "1", "b", "0", "8", "4", "f", "3", "f", "1", "4", "6", "e", "b", "5", "7", "8", "7", "0", "7", "5", "1", "5", "8", "d", "9", "c", "5", "3">>

\* SUBSTRING(s, from, count)
SUBSTRING(s, from, count) ==
    SubSeq(s, from, IF from + count - 1 <= Len(s) THEN from + count - 1 ELSE Len(s))

HexLower ==
    {"0", "1", "2", "3", "4", "5", "6", "7", "8", "9", "a", "b", "c", "d", "e", "f"}

\* positions of the hyphens in a UUID of 36 characters
UuidHyphens == {9, 14, 19, 24}

\* s ~ '[0-9a-f]{8}-[0-9a-f]{4}-[0-9a-f]{4}-[0-9a-f]{4}-[0-9a-f]{12}'
MatchesUuid(s) ==
    \E i \in 1..Len(s) :
        /\ i + 35 <= Len(s)
        /\ \A k \in 1..36 :
              IF k \in UuidHyphens THEN s[i + k - 1] = "-" ELSE s[i + k - 1] \in HexLower

\* the text logDecision stores as reason: a fixed message, or the template
\* `message: ${value}`
ReasonText(reason) ==
    IF reason.of = NULL
    THEN Chars(reason.msg)
    ELSE Chars(reason.msg) \o Chars(": ") \o Chars(reason.of)

\* the CASE expression of the column reason_sanitized, on a reason that is
\* not NULL
reason_sanitized(reason) ==
    IF MatchesUuid(reason) THEN Chars("Access decision logged")
    ELSE IF Len(reason) > 100 THEN SUBSTRING(reason, 1, 100) \o Chars("...")
    ELSE reason

\* the rows of the view, one per row of policy_enforcement_log; id stands
\* for pel.id; timestamp, hour_of_day and day_of_week come from the column
\* default of the table and hold nothing of the Decision
audit_logs_sanitized ==
    [ i \in 1..Len(policy_enforcement_log) |->
        LET pel == policy_enforcement_log[i] IN
        [ id               |-> i,
          user_hash        |-> SUBSTRING(MD5(pel.user_id), 1, 8),
          action           |-> Chars(pel.action),
          resource_type    |-> Chars(pel.resource_type),
          result           |-> Chars(pel.result),
          reason_sanitized |-> reason_sanitized(ReasonText(pel.reason)) ] ]

-----------------------------------------------------------------------------
(* The audit endpoints: GET /api/audit/logs, /metrics, /judges, /cases and  *)
(* /tokens.                                                                *)

Endpoints == {"logs", "metrics", "judges", "cases", "tokens"}

\* the attribute each endpoint passes to requireAdminWithPermission
RequiredAttribute(endpoint) ==
    CASE endpoint = "logs"    -> "audit.logs.view"
      [] endpoint = "metrics" -> "audit.metrics.view"
      [] endpoint = "judges"  -> "audit.metrics.view"
      [] endpoint = "cases"   -> "audit.metrics.view"
      [] endpoint = "tokens"  -> "audit.tokens.view"

\* the view each endpoint names in logAuditAccess and reads
ViewOf(endpoint) ==
    CASE endpoint = "logs"    -> "audit_logs_sanitized"
      [] endpoint = "metrics" -> "audit_daily_metrics"
      [] endpoint = "judges"  -> "audit_active_judges_daily"
      [] endpoint = "cases"   -> "audit_cases_resolved_daily"
      [] endpoint = "tokens"  -> "audit_token_stats"

\* the error message of each endpoint for a failed view query
QueryError(endpoint) ==
    CASE endpoint = "logs"    -> "Failed to retrieve logs"
      [] endpoint = "metrics" -> "Failed to retrieve metrics"
      [] endpoint = "judges"  -> "Failed to retrieve judge statistics"
      [] endpoint = "cases"   -> "Failed to retrieve case statistics"
      [] endpoint = "tokens"  -> "Failed to retrieve token statistics"

\* requireAdmin: the message of the Error it throws, or NULL
requireAdmin(user) ==
    IF user = NULL THEN "Unauthorized"
    ELSE IF status[user] # "active" THEN "Account suspended"
    ELSE IF role[user] # "admin" /\ role[user] # "super_admin" THEN "Forbidden"
    ELSE NULL

\* requireAdminWithPermission without the filter on expires_at
requireAdminWithPermission_IgnoresExpiry(user, requiredAttribute) ==
    IF requireAdmin(user) # NULL THEN requireAdmin(user)
    ELSE IF role[user] = "super_admin" THEN NULL
    ELSE LET rows == { r \in user_attributes :
                         r.user_id = user /\ r.name = requiredAttribute }
         IN IF Cardinality(rows) = 1 THEN NULL ELSE "Forbidden - Missing permission"

\* requireAdminWithPermission: the message of the Error it throws, or NULL;
\* maybeSingle() yields a row only when exactly one matches
requireAdminWithPermission(user, requiredAttribute) ==
    IF requireAdmin(user) # NULL THEN requireAdmin(user)
    ELSE IF role[user] = "super_admin" THEN NULL
    ELSE LET rows == { r \in user_attributes :
                         /\ r.user_id = user
                         /\ r.name = requiredAttribute
                         /\ Active(r) }
         IN IF Cardinality(rows) = 1 THEN NULL ELSE "Forbidden - Missing permission"

\* a thrown value: new Error(message), or a value that is no Error
Error(message) == [instanceOfError |-> TRUE, message |-> message]
NonError(text) == [instanceOfError |-> FALSE, message |-> text]

\* the own properties of the object literal errorMap
errorMap ==
    [ key \in { "Unauthorized", "Unauthorized - No authenticated user", "Account suspended",
                "Forbidden", "Forbidden - Super Admin access required",
                "Forbidden - Missing permission", "User profile not found",
                "Account is not active" } |->
        CASE key = "Unauthorized" -> [status |-> 401, message |-> "Authentication required"]
          [] key = "Unauthorized - No authenticated user" ->
                [status |-> 401, message |-> "Authentication required"]
          [] key = "Account suspended" -> [status |-> 403, message |-> "Account suspended"]
          [] key = "Forbidden" -> [status |-> 403, message |-> "Access denied"]
          [] key = "Forbidden - Super Admin access required" ->
                [status |-> 403, message |-> "Access denied"]
          [] key = "Forbidden - Missing permission" ->
                [status |-> 403, message |-> "Insufficient permissions"]
          [] key = "User profile not found" ->
                [status |-> 401, message |-> "Authentication required"]
          [] key = "Account is not active" -> [status |-> 403, message |-> "Account suspended"] ]

\* the properties errorMap inherits from Object.prototype; each is a function
\* or an object, so it is truthy and has no message and no status of its own
ObjectPrototypeKeys ==
    { "constructor", "__proto__", "hasOwnProperty", "isPrototypeOf", "propertyIsEnumerable",
      "toLocaleString", "toString", "valueOf", "__defineGetter__", "__defineSetter__",
      "__lookupGetter__", "__lookupSetter__" }

\* createSecureErrorResponse(error) with the default status; errorMap[errorMessage]
\* is a property read, which finds inherited properties too; a body whose
\* error is undefined has no error field and an undefined status is 200
createSecureErrorResponse(error) ==
    LET errorMessage == IF error.instanceOfError THEN error.message ELSE "Unknown error" IN
    IF errorMessage \in DOMAIN errorMap
    THEN Json(errorMap[errorMessage].status, errorMap[errorMessage].message)
    ELSE IF errorMessage \in ObjectPrototypeKeys
    THEN Json(200, NULL)
    ELSE Json(500, "Internal server error")

Handlers == 1..MaxHandlers

\* faults of the insert of logAuditAccess: createClient throws, the insert
\* returns {error}, or the insert throws
AccessLogFaults == {"none", "client_throw", "insert_error", "insert_throw"}
\* faults of the view query: the query returns {error}
QueryFaults == {"none", "query_error"}

NoResponse == [kind |-> "none", status |-> 0, error |-> NULL, headers |-> NoHeaders]

IdleHandler ==
    [ pc |-> "idle", endpoint |-> NULL, user |-> NULL, events |-> <<>>,
      console |-> <<>>, response |-> NoResponse, data |-> NULL ]

\* one step of a request as its handler keeps it
Event(step, by, what, ok) == [step |-> step, by |-> by, what |-> what, ok |-> ok]

\* a request arrives at an endpoint with the session of user
AuditBegin(h, endpoint, user) ==
    /\ handlers[h].pc = "idle"
    \* handlers are numbered in the order in which their requests arrive
    /\ \A g \in Handlers : g < h => handlers[g].pc # "idle"
    /\ handlers' = [handlers EXCEPT ![h] =
                       [IdleHandler EXCEPT !.pc = "requireAdmin",
                                           !.endpoint = endpoint,
                                           !.user = user]]
    /\ UNCHANGED <<role, user_attributes, now, policy_enforcement_log, ctx, last, status,
                   cases, case_assignments, identity_mapping, rateLimitMap, clock, http,
                   requests, ephemeral_credentials, pages, rateLimitStore, rateCalls, audit_access_log>>

\* step 1: requireAdminWithPermission reads the profile and the grant; an
\* Error goes to the catch of the handler
AuditAuthorize(h) ==
    LET r == handlers[h]
        attr == RequiredAttribute(r.endpoint)
        e == requireAdminWithPermission(r.user, attr)
    IN
    /\ r.pc = "requireAdmin"
    /\ handlers' = [handlers EXCEPT ![h] =
          IF e # NULL
          THEN [r EXCEPT !.pc = "done",
                         !.events = Append(@, Event("permission", r.user, attr, FALSE)),
                         !.response = createSecureErrorResponse(Error(e))]
          ELSE [r EXCEPT !.pc = "checkRateLimit",
                         !.events = Append(@, Event("permission", r.user, attr, TRUE))]]
    /\ UNCHANGED <<role, user_attributes, now, policy_enforcement_log, ctx, last, status,
                   cases, case_assignments, identity_mapping, rateLimitMap, clock, http,
                   requests, ephemeral_credentials, pages, rateLimitStore, rateCalls, audit_access_log>>

\* step 2 without step 4: the handler goes from the rate limit to the query
AuditRateLimit_SkipsAccessLog(h) ==
    LET r == handlers[h]
        v == vault_checkRateLimit(rateLimitStore, r.user, ADMIN_RATE_LIMIT)
        rec == v.store[StoreKey(r.user)]
    IN
    /\ r.pc = "checkRateLimit"
    /\ Len(rateCalls) < MaxRateCalls
    /\ rateLimitStore' = v.store
    /\ rateCalls' = Append(rateCalls,
          RateCall("vault", r.user, ADMIN_RATE_LIMIT, v.allowed, rec.count,
                   rec.resetAt - RATE_LIMIT_WINDOW_MS))
    /\ handlers' = [handlers EXCEPT ![h] =
          IF ~ v.allowed
          THEN [r EXCEPT !.pc = "done",
                         !.events = Append(@, Event("rateLimit", r.user, NULL, FALSE)),
                         !.response = JsonWith(429, "Too many requests. Please wait before trying again.",
                                               getRateLimitHeaders(v.remaining, v.resetIn))]
          ELSE [r EXCEPT !.pc = "query",
                         !.events = Append(@, Event("rateLimit", r.user, NULL, TRUE))]]
    /\ UNCHANGED <<role, user_attributes, now, policy_enforcement_log, ctx, last, status,
                   cases, case_assignments, identity_mapping, rateLimitMap, clock, http,
                   requests, ephemeral_credentials, pages, audit_access_log>>

\* step 2: the continuation of the await runs checkRateLimit(user.id) and,
\* when allowed, goes on to the insert of logAuditAccess without a pause
AuditRateLimit(h) ==
    LET r == handlers[h]
        v == vault_checkRateLimit(rateLimitStore, r.user, ADMIN_RATE_LIMIT)
        rec == v.store[StoreKey(r.user)]
    IN
    /\ r.pc = "checkRateLimit"
    /\ Len(rateCalls) < MaxRateCalls
    /\ rateLimitStore' = v.store
    /\ rateCalls' = Append(rateCalls,
          RateCall("vault", r.user, ADMIN_RATE_LIMIT, v.allowed, rec.count,
                   rec.resetAt - RATE_LIMIT_WINDOW_MS))
    /\ handlers' = [handlers EXCEPT ![h] =
          IF ~ v.allowed
          THEN [r EXCEPT !.pc = "done",
                         !.events = Append(@, Event("rateLimit", r.user, NULL, FALSE)),
                         !.response = JsonWith(429, "Too many requests. Please wait before trying again.",
                                               getRateLimitHeaders(v.remaining, v.resetIn))]
          ELSE [r EXCEPT !.pc = "logAuditAccess",
                         !.events = Append(@, Event("rateLimit", r.user, NULL, TRUE))]]
    /\ UNCHANGED <<role, user_attributes, now, policy_enforcement_log, ctx, last, status,
                   cases, case_assignments, identity_mapping, rateLimitMap, clock, http,
                   requests, ephemeral_credentials, pages, audit_access_log>>

\* step 4: logAuditAccess(user.id, view) settles; it catches what is thrown
\* and drops the result of the insert
AuditAccessLogged(h, fault) ==
    LET r == handlers[h]
        view == ViewOf(r.endpoint)
    IN
    /\ r.pc = "logAuditAccess"
    /\ audit_access_log' =
          IF fault = "none"
          THEN Append(audit_access_log, [accessed_by |-> r.user, view_accessed |-> view])
          ELSE audit_access_log
    /\ handlers' = [handlers EXCEPT ![h] =
          [r EXCEPT !.pc = "query",
                    !.events = Append(@, Event("logAuditAccess", r.user, view, fault = "none")),
                    !.console = IF fault \in {"client_throw", "insert_throw"}
                                THEN Append(@, "[Audit] Failed to log access:")
                                ELSE @]]
    /\ UNCHANGED <<role, user_attributes, now, policy_enforcement_log, ctx, last, status,
                   cases, case_assignments, identity_mapping, rateLimitMap, clock, http,
                   requests, ephemeral_credentials, pages, rateLimitStore, rateCalls>>

\* step 5: the view is read and the response is built
AuditQuery(h, fault) ==
    LET r == handlers[h]
        view == ViewOf(r.endpoint)
    IN
    /\ r.pc = "query"
    /\ handlers' = [handlers EXCEPT ![h] =
          CASE fault = "query_error" ->
                 [r EXCEPT !.pc = "done",
                           !.events = Append(@, Event("query", r.user, view, FALSE)),
                           !.console = Append(@, "[Audit API] Query error:"),
                           !.response = Json(500, QueryError(r.endpoint))]
            [] fault = "none" ->
                 [r EXCEPT !.pc = "done",
                           !.events = Append(@, Event("query", r.user, view, TRUE)),
                           !.response = Json(200, NULL),
                           !.data = view]]
    /\ UNCHANGED <<role, user_attributes, now, policy_enforcement_log, ctx, last, status,
                   cases, case_assignments, identity_mapping, rateLimitMap, clock, http,
                   requests, ephemeral_credentials, pages, rateLimitStore, rateCalls, audit_access_log>>

\* no audit endpoint has been called
IdleAudit ==
    /\ rateLimitStore = <<>>
    /\ rateCalls = <<>>
    /\ audit_access_log = <<>>
    /\ handlers = <<>>

IdlePlatform ==
    /\ status = [u \in Users |-> "active"]
    /\ cases = {[id |-> "c1", status |-> "assigned"]}
    /\ case_assignments = {}
    /\ identity_mapping = {}
    /\ rateLimitMap = <<>>
    /\ clock = 0
    /\ http = NoOp
    /\ requests = 0
    /\ ephemeral_credentials = <<>>
    /\ pages = [p \in Pages |-> IdlePage]
    /\ IdleAudit

Init ==
    /\ role = [u \in Users |-> "judge"]
    /\ user_attributes = SeedRows
    /\ now = 0
    /\ policy_enforcement_log = <<>>
    /\ ctx \in Contexts
    /\ last = NoOp
    /\ IdlePlatform

Next ==
    \/ \E u \in Managed, a \in GrantAttrs, e \in ExpiryInputs :
          InsertGrant(u, a, e)
    \/ \E old \in user_attributes, e \in ExpiryInputs :
          old.user_id \in Managed /\ UpdateGrant(old, e)
    \/ \E old \in user_attributes : old.user_id \in Managed /\ DeleteGrant(old)
    \/ \E u \in Managed, r \in RoleInputs : ChangeRole(u, r)
    \/ Tick
    \/ \E fault \in StoreFaults, auditFault \in AuditFaults :
          CheckPermission(fault, auditFault)
    \/ Respond

Spec == Init /\ [][Next]_vars

-----------------------------------------------------------------------------
(* The classification step over every set of clearance grants.             *)

\* the clearance attributes of the catalogue (ATTRIBUTES.CLEARANCE_L1..L4) and
\* one clearance attribute whose name carries no tier
ClearanceAttrs ==
    {"clearance.L1.public", "clearance.L2.confidential", "clearance.L3.secret",
     "clearance.L4.top_secret", "clearance.special"}

\* the grant tables in which u1 holds case.edit.metadata and any set of
\* clearance grants, each without expiry or expiring at MaxTime
ClearanceStores ==
    { SeedRows \cup {GrantRow("u1", "case.edit.metadata", NULL_TIME)}
        \cup { GrantRow("u1", n, f[n]) : n \in DOMAIN f } :
      f \in UNION { [held -> ExpiryInputs] : held \in SUBSET ClearanceAttrs } }

\* evaluations of a classified case: a mapped and an unmapped action
ClearanceContexts ==
    { Context(u, a, "case", c) : u \in Managed, a \in {"case.edit", "case.details.view"},
                                c \in Classifications }

InitClearance ==
    /\ role = [u \in Users |-> "judge"]
    /\ user_attributes \in ClearanceStores
    /\ now = 0
    /\ policy_enforcement_log = <<>>
    /\ ctx \in ClearanceContexts
    /\ last = NoOp
    /\ IdlePlatform

NextClearance ==
    \/ Tick
    \/ \E fault \in StoreFaults, auditFault \in AuditFaults :
          CheckPermission(fault, auditFault)
    \/ Respond

SpecClearance == InitClearance /\ [][NextClearance]_vars

\* calls of the helper hasClearance on the same grant tables
NextHasClearance ==
    \/ Tick
    \/ \E classification \in Classifications, fault \in ClearanceFaults :
          HasClearance(requiredLevels(classification), fault)
    \/ Respond

SpecHasClearance == InitClearance /\ [][NextHasClearance]_vars

-----------------------------------------------------------------------------
(* checkPermission with the await of the audit insert as a step of its own. *)

\* the store is the one that settles the insert and nothing obliges it to;
\* the runtime runs the continuation of a settled promise and the caller
\* takes a returned value
NextAwait ==
    \/ Tick
    \/ \E fault \in StoreFaults : CheckPermissionBegin(fault)
    \/ \E auditFault \in AuditFaults : InsertSettles(auditFault)
    \/ CheckPermissionResume
    \/ Respond

SpecAwait ==
    /\ Init
    /\ [][NextAwait]_vars
    /\ WF_vars(CheckPermissionResume)
    /\ WF_vars(Respond)

-----------------------------------------------------------------------------
(* Requests to the case-detail endpoint through either guard.              *)

Guards == {"proxy", "middleware"}
Sessions == {NULL, "u1"}

\* the attributes u1 may hold when requests start
HttpGrantAttrs == {"admin.vault.reveal_identity", "case.details.view"}

\* rateLimitMap when requests start: empty, or u1's window for /api/admin,
\* opened at 0, holding RATE_LIMIT_MAX_GENERAL - 1 requests
RateSeeds ==
    { <<>>,
      [ k \in {RateKey("api-admin", "u1")} |->
          [count |-> RATE_LIMIT_MAX_GENERAL - 1, timestamp |-> 0] ] }

\* the server clock advances by a window, or by a millisecond more than that
ClockSteps == {RATE_LIMIT_WINDOW, RATE_LIMIT_WINDOW + 1}

\* u1 has any role and status and holds grants the grant trigger accepts for
\* that role; case c1 is assigned, or not, to the pseudonym a1 of judge u2
InitHttp ==
    /\ role \in { [u \in Users |-> IF u = "u1" THEN r ELSE "judge"] : r \in Roles }
    /\ user_attributes \in
          { SeedRows \cup { GrantRow("u1", a, NULL_TIME) : a \in A } :
              A \in { B \in SUBSET HttpGrantAttrs :
                        \A a \in B : check_admin_no_vault_access(role["u1"], a) = NULL } }
    /\ now = 0
    /\ policy_enforcement_log = <<>>
    /\ ctx = Context("u1", "case.details.view", "cases", "")
    /\ last = NoOp
    /\ status \in { [u \in Users |-> IF u = "u1" THEN s ELSE "active"] :
                      s \in {"active", "suspended"} }
    /\ cases = {[id |-> "c1", status |-> "assigned"]}
    /\ case_assignments \in { {}, {[case_id |-> "c1", anon_actor_id |-> "a1"]} }
    /\ identity_mapping = {[anon_id |-> "a1", user_id |-> "u2", case_id |-> "c1"]}
    /\ rateLimitMap \in RateSeeds
    /\ clock = 0
    /\ http = NoOp
    /\ requests = 0
    /\ ephemeral_credentials = <<>>
    /\ pages = [p \in Pages |-> IdlePage]
    /\ IdleAudit

NextHttp ==
    \/ \E g \in Guards, user \in Sessions, pathname \in Paths,
          fault \in StoreFaults, auditFault \in AuditFaults :
          Request(g, user, pathname, fault, auditFault)
    \/ \E g \in Guards, user \in Sessions, pathname \in Paths, bodyStatus \in BodyStatuses,
          fault \in StoreFaults, auditFault \in AuditFaults :
          RequestPatch(g, user, pathname, bodyStatus, fault, auditFault)
    \/ RespondHttp
    \/ \E d \in ClockSteps : Advance(d)

SpecHttp == InitHttp /\ [][NextHttp]_vars

-----------------------------------------------------------------------------
(* Renders of the judge case page against one ephemeral credential.        *)

\* judge u1 is assigned case c1 under the pseudonym a1; case c1 is open or
\* closed; case c2 is assigned to judge u2
InitCred ==
    /\ role = [u \in Users |-> "judge"]
    /\ user_attributes = SeedRows
    /\ now = 0
    /\ policy_enforcement_log = <<>>
    /\ ctx = Context("u1", "case.details.view", "cases", "")
    /\ last = NoOp
    /\ status = [u \in Users |-> "active"]
    /\ cases \in { {[id |-> "c1", status |-> s], [id |-> "c2", status |-> "assigned"]} :
                     s \in {"assigned", "dictaminado"} }
    /\ case_assignments = { [case_id |-> "c1", anon_actor_id |-> "a1"],
                            [case_id |-> "c2", anon_actor_id |-> "a2"] }
    /\ identity_mapping = { [anon_id |-> "a1", user_id |-> "u1", case_id |-> "c1"],
                            [anon_id |-> "a2", user_id |-> "u2", case_id |-> "c2"] }
    /\ rateLimitMap = <<>>
    /\ clock = 0
    /\ http = NoOp
    /\ requests = 0
    /\ ephemeral_credentials = <<>>
    /\ pages = [p \in Pages |-> IdlePage]
    /\ IdleAudit

NextCred ==
    \/ \E token \in Tokens, caseId \in CaseIds, ttl \in 1..MaxTtl :
          Issue(token, caseId, "u1", ttl)
    \/ \E p \in Pages, caseId \in PageCaseIds, cookie \in CookieValues :
          PageBegin(p, "u1", caseId, cookie)
    \/ \E p \in Pages : PageValidate(p)
    \/ Tick

SpecCred == InitCred /\ [][NextCred]_vars

-----------------------------------------------------------------------------
(* The two rate limiters called directly, for every principal and limit.   *)

NextRate ==
    \/ \E u \in Users, n \in Limits : VaultRateCall(u, n)
    \/ \E u \in Users, n \in Limits : ProxyRateCall(u, n)
    \/ \E d \in ClockSteps : Elapse(d)

InitRate ==
    /\ role = [u \in Users |-> "admin"]
    /\ user_attributes = SeedRows
    /\ now = 0
    /\ policy_enforcement_log = <<>>
    /\ ctx = Context("u1", "audit.logs.view", "audit", "")
    /\ last = NoOp
    /\ IdlePlatform

SpecRate == InitRate /\ [][NextRate]_vars

-----------------------------------------------------------------------------
(* Concurrent requests to the audit endpoints.                             *)

AuditGrantAttrs == {"audit.logs.view", "audit.metrics.view", "audit.tokens.view"}

\* rateLimitStore when the requests start: empty, or u1's window, opened at
\* 0, holding ADMIN_RATE_LIMIT - 1 requests
StoreSeeds ==
    { <<>>,
      [ k \in {StoreKey("u1")} |->
          [count |-> ADMIN_RATE_LIMIT - 1, resetAt |-> RATE_LIMIT_WINDOW_MS] ] }

\* the grants of an auditor when the requests start: none, the grant of the
\* logs endpoint, or the grants of the logs and tokens endpoints and a grant
\* of the metrics endpoints that expired at 0
AuditGrantSeeds ==
    { {},
      { GrantRow("u1", "audit.logs.view", NULL_TIME) },
      { GrantRow("u1", a, IF a = "audit.metrics.view" THEN 0 ELSE NULL_TIME) :
          a \in AuditGrantAttrs } }

\* u1 is an auditor with one of these sets of grants, a super_admin or a
\* judge, active or suspended
InitAudit ==
    /\ role \in { [u \in Users |-> IF u = "u1" THEN r ELSE "judge"] :
                    r \in {"admin", "super_admin", "judge"} }
    /\ user_attributes \in
          { SeedRows \cup G :
              G \in IF role["u1"] = "admin" THEN AuditGrantSeeds ELSE {{}} }
    /\ now = 0
    /\ policy_enforcement_log = <<>>
    /\ ctx = Context("u1", "audit.logs.view", "audit", "")
    /\ last = NoOp
    /\ status \in { [u \in Users |-> IF u = "u1" THEN st ELSE "active"] :
                      st \in {"active", "suspended"} }
    /\ cases = {[id |-> "c1", status |-> "assigned"]}
    /\ case_assignments = {}
    /\ identity_mapping = {}
    /\ rateLimitMap = <<>>
    /\ clock = 0
    /\ http = NoOp
    /\ requests = 0
    /\ ephemeral_credentials = <<>>
    /\ pages = [p \in Pages |-> IdlePage]
    /\ rateLimitStore \in StoreSeeds
    /\ rateCalls = <<>>
    /\ audit_access_log = <<>>
    /\ handlers = [h \in Handlers |-> IdleHandler]

NextAudit ==
    \/ \E h \in Handlers, endpoint \in Endpoints, user \in Sessions :
          AuditBegin(h, endpoint, user)
    \/ \E h \in Handlers : AuditAuthorize(h)
    \/ \E h \in Handlers : AuditRateLimit(h)
    \/ \E h \in Handlers, fault \in AccessLogFaults : AuditAccessLogged(h, fault)
    \/ \E h \in Handlers, fault \in QueryFaults : AuditQuery(h, fault)

SpecAudit == InitAudit /\ [][NextAudit]_vars

-----------------------------------------------------------------------------
(* Properties of the evaluator and of the grant trigger, under Spec.       *)

\* the names of the attributes a user holds through an active grant
HeldBy(u) == { r.name : r \in { x \in user_attributes : x.user_id = u /\ Active(x) } }

\* the evaluation that just returned read the user's grants from the store
GrantsWereRead ==
    "createClient" \notin last.failed /\ "user_attributes" \notin last.failed

\* C1: an evaluation of an action that has an entry in the action-to-attribute
\* table, for a subject whose active grants do not include the mapped
\* attribute, returns allowed = false; whenever the evaluator read the grants,
\* the returned reason and the logged reason name that attribute; asking for
\* case.edit without case.edit.metadata is denied citing case.edit.metadata.
C1_MissingAttributeDenied ==
    LET required == mapActionToAttribute(ctx.action) IN
    (last.op = "checkPermission" /\ required # NULL /\ required \notin HeldBy(ctx.userId))
    => /\ ~ last.result.allowed
       /\ GrantsWereRead =>
            /\ last.result.reason = Reason("Permiso denegado: requiere atributo", required)
            /\ last.result.attributesChecked = {required}
            /\ Len(last.appends) = 1
            /\ last.appends[1].result = "deny"
            /\ last.appends[1].reason.of = required
       /\ (GrantsWereRead /\ ctx.action = "case.edit")
            => last.result.reason.of = "case.edit.metadata"

\* C1 witness: the subject holds other attributes, asks for case.edit without
\* holding case.edit.metadata, and is denied with that attribute named.
C1_Witness ==
    /\ last.op = "checkPermission"
    /\ ctx.action = "case.edit"
    /\ HeldBy(ctx.userId) # {}
    /\ "case.edit.metadata" \notin HeldBy(ctx.userId)
    /\ ~ last.result.allowed
    /\ last.result.reason.of = "case.edit.metadata"

\* a held restriction whose blocked-prefix list has a prefix of the action
HeldRestrictionBlocks(u, action) ==
    \E n \in HeldBy(u) :
        /\ abac_attributes(n).category = "restriction"
        /\ \E p \in rules(n) : StartsWith(action, p)

\* C2: an evaluation for a subject holding an active restriction whose
\* blocked-prefix list contains a prefix of the requested action returns
\* allowed = false, whatever else the subject holds.
C2_RestrictionDenies ==
    (last.op = "checkPermission" /\ HeldRestrictionBlocks(ctx.userId, ctx.action))
    => ~ last.result.allowed

\* C2 witness: the subject holds the mapped permission and top-secret
\* clearance, the resource is a classified case, no store access fails, and
\* the held restriction denies the action.
C2_Witness ==
    /\ last.op = "checkPermission"
    /\ HeldRestrictionBlocks(ctx.userId, ctx.action)
    /\ mapActionToAttribute(ctx.action) \in HeldBy(ctx.userId)
    /\ "clearance.L4.top_secret" \in HeldBy(ctx.userId)
    /\ ctx.resourceType = "case"
    /\ ctx.metadata.classification = "secret"
    /\ last.failed = {}
    /\ ~ last.result.allowed
    /\ last.result.policy = "Restriction Policy"

\* the level of a clearance attribute of the catalogue (ATTRIBUTES.CLEARANCE_*),
\* 0 for a clearance attribute that names no level
ClearanceLevelOf(name) ==
    CASE name = "clearance.L1.public"       -> 1
      [] name = "clearance.L2.confidential" -> 2
      [] name = "clearance.L3.secret"       -> 3
      [] name = "clearance.L4.top_secret"   -> 4
      [] OTHER                              -> 0

\* the clearance attributes a user holds through an active grant
HeldClearances(u) == HeldBy(u) \cap ClearanceAttrs

\* C3: when the classification step of an evaluation runs (resourceType is
\* case, a classification of the four is present) and its clearance query is
\* answered, the step passes if and only if the subject's maximum clearance
\* level is at least the level the classification requires; a subject with no
\* active clearance attribute passes only for public.
C3_ClearanceStep ==
    (last.op = "checkPermission" /\ last.hasProperClearance # "unset"
        /\ last.failed = {} /\ ctx.metadata.classification \in Classifications)
    => LET held == HeldClearances(ctx.userId)
           required == CASE ctx.metadata.classification = "public"       -> 1
                         [] ctx.metadata.classification = "confidential" -> 2
                         [] ctx.metadata.classification = "secret"       -> 3
                         [] ctx.metadata.classification = "top_secret"   -> 4
       IN  /\ ctx.resourceType = "case"
           /\ (last.hasProperClearance = "true")
                <=> IF held = {}
                    THEN ctx.metadata.classification = "public"
                    ELSE \E n \in held : ClearanceLevelOf(n) >= required
           /\ last.result.allowed <=> (last.hasProperClearance = "true")

\* C3 witness: the subject's active clearances are L2 and L3, a grant of L4
\* has expired, the case is secret, and the step passes.
C3_Witness ==
    /\ last.op = "checkPermission"
    /\ last.failed = {}
    /\ ctx.resourceType = "case"
    /\ ctx.metadata.classification = "secret"
    /\ HeldClearances(ctx.userId) = {"clearance.L2.confidential", "clearance.L3.secret"}
    /\ \E r \in user_attributes :
          r.user_id = ctx.userId /\ r.name = "clearance.L4.top_secret" /\ ~ Active(r)
    /\ last.hasProperClearance = "true"
    /\ last.result.allowed

\* C3 witness: the subject holds no clearance attribute and the step
\* rejects a confidential case.
C3_WitnessNoClearance ==
    /\ last.op = "checkPermission"
    /\ last.failed = {}
    /\ ctx.metadata.classification = "confidential"
    /\ HeldClearances(ctx.userId) = {}
    /\ last.hasProperClearance = "false"

\* C4: an evaluation in which a store access failed returns allowed = false.
C4_FailClosed ==
    (last.op = "checkPermission" /\ last.failed # {}) => ~ last.result.allowed

\* C5: every evaluation hands exactly one Decision to the audit sink, and its
\* result is the returned allowed flag.
C5_OneDecisionPerCall ==
    last.op = "checkPermission"
    => /\ Len(last.appends) = 1
       /\ last.appends[1].result = (IF last.result.allowed THEN "allow" ELSE "deny")

\* attribute names an auditor must not hold: vault reveal, user management,
\* case content
ForbiddenForAuditor(name) ==
    \/ Like(name, "admin.vault.")
    \/ name \in {"user.profile.view", "user.create", "user.edit", "user.deactivate"}
    \/ Like(name, "case.")

\* C6: no user whose role is admin holds a grant of a forbidden attribute.
C6_AuditorHoldsNoForbiddenGrant ==
    \A r \in user_attributes :
        role[r.user_id] = "admin" => ~ ForbiddenForAuditor(r.name)

\* the actions of the ABAC action list that reveal vault identities, manage
\* users or touch case content
ForbiddenActionForAuditor(action) ==
    /\ mapActionToAttribute(action) # NULL
    /\ \/ action = "admin.reveal_identity"
       \/ StartsWith(action, "user.")
       \/ StartsWith(action, "case.")

\* C7: an evaluation for a subject whose role is admin denies every
\* vault-reveal, user-management and case-content action.
C7_EvaluatorDeniesAuditor ==
    (last.op = "checkPermission" /\ role[ctx.userId] = "admin"
        /\ ForbiddenActionForAuditor(ctx.action))
    => ~ last.result.allowed

-----------------------------------------------------------------------------
(* Properties of the case-detail endpoint, under SpecHttp.                 *)

\* C8: every resolveIdentity(anonId, callerId) call of a request comes after
\* an evaluator check of the same request, for the action
\* admin.reveal_identity and the same callerId, that returned allowed = true.
C8_RevealCheckedBeforeResolve ==
    http.op = "request"
    => \A i \in DOMAIN http.events :
          http.events[i].kind = "resolveIdentity"
          => \E j \in 1..(i - 1) :
                /\ http.events[j].kind = "checkPermission"
                /\ http.events[j].action = "admin.reveal_identity"
                /\ http.events[j].userId = http.events[i].userId
                /\ http.events[j].allowed

\* C9: a request of a user whose role is admin, through either guard, makes
\* no resolveIdentity call.
C9_AuditorNeverReachesResolve ==
    (http.op = "request" /\ http.user # NULL /\ role[http.user] = "admin")
    => \A i \in DOMAIN http.events : http.events[i].kind # "resolveIdentity"

-----------------------------------------------------------------------------
(* Properties of credential validation, under SpecCred.                    *)

\* the renders whose validateToken call on the token returned
Validated(token) ==
    { p \in Pages : pages[p].pc = "done" /\ pages[p].token = token }

\* the renders whose validateToken call on the token succeeded
Succeeded(token) == { p \in Validated(token) : ~ pages[p].tokenInfo.isNull }

\* the validate calls made so far on each credential: at most one succeeded,
\* exactly one if some call was made before expires_at; a success was made
\* before expires_at, returns the bound case and set used_at to its time;
\* no call at or after expires_at succeeded
SingleUse ==
    \A token \in DOMAIN ephemeral_credentials :
        LET cred == ephemeral_credentials[token] IN
        /\ Cardinality(Succeeded(token)) <= 1
        /\ (\E p \in Validated(token) : pages[p].at < cred.expires_at)
              => Cardinality(Succeeded(token)) = 1
        /\ \A p \in Succeeded(token) :
              /\ pages[p].at < cred.expires_at
              /\ pages[p].tokenInfo.caseId = cred.case_id
              /\ cred.used_at = pages[p].at
        /\ (cred.used_at = NULL_TIME) <=> (Succeeded(token) = {})

\* used_at, once set, never changes, and is set only by a validate call that
\* succeeds
UsedAtSetOnce ==
    \A token \in DOMAIN ephemeral_credentials :
        /\ token \in DOMAIN ephemeral_credentials'
        /\ ephemeral_credentials[token].used_at # NULL_TIME
              => ephemeral_credentials'[token].used_at = ephemeral_credentials[token].used_at
        /\ ephemeral_credentials'[token].used_at # ephemeral_credentials[token].used_at
              => \E p \in Pages :
                    /\ pages[p].pc = "validateToken"
                    /\ pages'[p].pc = "done"
                    /\ ~ pages'[p].tokenInfo.isNull

\* C10: under any interleaving of validate calls on one credential, at most
\* one call succeeds, exactly one when a call is made while the credential is
\* unused and unexpired; used_at goes from null to a time once and never
\* changes again; every call after consumption or at or after expires_at
\* returns null.
C10_SingleUse == [] SingleUse /\ [][UsedAtSetOnce]_vars

\* C10 witness: three validate calls were made on one credential, one
\* succeeded and consumed it, one failed before expiry, one failed at expiry.
C10_Witness ==
    /\ "t1" \in DOMAIN ephemeral_credentials
    /\ Cardinality(Validated("t1")) = 3
    /\ Cardinality(Succeeded("t1")) = 1
    /\ ephemeral_credentials["t1"].used_at # NULL_TIME
    /\ \E p \in Validated("t1") :
          pages[p].tokenInfo.isNull /\ pages[p].at < ephemeral_credentials["t1"].expires_at
    /\ \E p \in Validated("t1") :
          pages[p].tokenInfo.isNull /\ pages[p].at >= ephemeral_credentials["t1"].expires_at

-----------------------------------------------------------------------------
(* Properties of the judge case page, under SpecCred.                      *)

\* the renders that ended for a user verifyAccess does not link to the case
RefusedRenders ==
    { p \in Pages : /\ pages[p].pc = "done"
                    /\ pages[p].user # NULL
                    /\ ~ verifyAccess(pages[p].user, pages[p].caseId) }

\* C11: every render for a user whom verifyAccess refuses ends in the same
\* notFound outcome, whether the case exists or not: none ends in a
\* forbidden outcome, a case view, the closed-case view or the token form,
\* and none validates a token.
C11_RefusedIsNotFound ==
    \A p \in RefusedRenders :
        /\ pages[p].view = "notFound"
        /\ pages[p].tokenInfo.isNull
        /\ pages[p].at = NULL_TIME
        /\ \A q \in RefusedRenders : pages[q].view = pages[p].view

\* C11 witness: the same judge was refused a case that exists and is
\* assigned to another judge, and a case id that names no case.
C11_Witness ==
    \E p, q \in RefusedRenders :
        /\ pages[p].user = pages[q].user
        /\ \E c \in cases : c.id = pages[p].caseId
        /\ ~ \E c \in cases : c.id = pages[q].caseId
        /\ pages[p].view = "notFound"
        /\ pages[q].view = "notFound"

-----------------------------------------------------------------------------
(* Order, freshness and audit-write independence of the evaluator, under   *)
(* Spec.                                                                   *)

\* the subject lacks the attribute the action maps to
LacksRequired ==
    /\ mapActionToAttribute(ctx.action) # NULL
    /\ mapActionToAttribute(ctx.action) \notin HeldBy(ctx.userId)

\* C12: an evaluation that read the grants returns at the first denial in
\* the order required attribute, restriction, clearance: a subject that
\* lacks the mapped attribute and holds a matching restriction is denied for
\* the missing attribute; a subject that passes the attribute step and holds
\* a matching restriction is denied by the restriction and the clearance
\* step does not run, whatever its query would have returned; one Decision
\* is recorded, with the reason of that step.
C12_EvaluationOrder ==
    (last.op = "checkPermission" /\ GrantsWereRead)
    => /\ LacksRequired
            => /\ ~ last.result.allowed
               /\ last.result.reason.msg = "Permiso denegado: requiere atributo"
               /\ last.result.policy = NULL
               /\ Len(last.appends) = 1
               /\ last.appends[1].reason.msg = "Missing required attribute"
               /\ last.hasProperClearance = "unset"
       /\ (~ LacksRequired /\ HeldRestrictionBlocks(ctx.userId, ctx.action))
            => /\ ~ last.result.allowed
               /\ last.result.reason.msg = "Accion bloqueada por restriccion"
               /\ last.result.policy = "Restriction Policy"
               /\ Len(last.appends) = 1
               /\ last.appends[1].reason.msg = "Blocked by restriction"
               /\ last.hasProperClearance = "unset"
               /\ last.failed = {}
       /\ last.hasProperClearance # "unset"
            => ~ LacksRequired /\ ~ HeldRestrictionBlocks(ctx.userId, ctx.action)

\* C12 witness: the subject lacks case.edit.metadata and holds
\* restrict.read_only, asks for case.edit, and the reason is the missing
\* attribute.
C12_Witness ==
    /\ last.op = "checkPermission"
    /\ GrantsWereRead
    /\ ctx.action = "case.edit"
    /\ LacksRequired
    /\ "restrict.read_only" \in HeldBy(ctx.userId)
    /\ HeldRestrictionBlocks(ctx.userId, ctx.action)
    /\ last.result.reason = Reason("Permiso denegado: requiere atributo", "case.edit.metadata")

\* C12 witness: the subject holds the mapped attribute and a matching
\* restriction but no clearance, the case is secret, and the denial is the
\* restriction's.
C12_WitnessRestrictionBeforeClearance ==
    /\ last.op = "checkPermission"
    /\ ~ LacksRequired
    /\ HeldRestrictionBlocks(ctx.userId, ctx.action)
    /\ HeldClearances(ctx.userId) = {}
    /\ ctx.resourceType = "case"
    /\ ctx.metadata.classification = "secret"
    /\ last.result.policy = "Restriction Policy"

\* the clearance the context asks for is covered by the active clearance
\* grants of the subject, or the context asks for none
ClearanceCovers ==
    \/ ctx.resourceType # "case"
    \/ ctx.metadata.classification = ""
    \/ LET held == HeldClearances(ctx.userId)
           required == CASE ctx.metadata.classification = "public"       -> 1
                         [] ctx.metadata.classification = "confidential" -> 2
                         [] ctx.metadata.classification = "secret"       -> 3
                         [] ctx.metadata.classification = "top_secret"   -> 4
       IN  IF held = {}
           THEN ctx.metadata.classification = "public"
           ELSE \E n \in held : ClearanceLevelOf(n) >= required

\* C13: the result of an evaluation in which no store access fails is
\* decided by the grants that are active in the store at the time of the
\* call and by nothing else: a grant that was revoked or has expired counts
\* for nothing, whatever earlier calls returned; an allow lists exactly the
\* active grants.
C13_Freshness ==
    (last.op = "checkPermission" /\ last.failed = {})
    => /\ last.result.allowed
            <=> /\ ~ LacksRequired
                /\ ~ HeldRestrictionBlocks(ctx.userId, ctx.action)
                /\ ClearanceCovers
       /\ last.result.allowed => last.result.attributesChecked = HeldBy(ctx.userId)

\* an earlier evaluation of the same context was allowed and recorded
AllowedBefore ==
    /\ Len(policy_enforcement_log) >= 1
    /\ policy_enforcement_log[1].result = "allow"
    /\ policy_enforcement_log[1].user_id = ctx.userId
    /\ policy_enforcement_log[1].action = ctx.action

\* C13 witness: the evaluation was allowed, the grant of the mapped
\* attribute was then revoked, and the next evaluation denies for the
\* missing attribute.
C13_Witness ==
    /\ last.op = "checkPermission"
    /\ last.failed = {}
    /\ AllowedBefore
    /\ mapActionToAttribute(ctx.action) # NULL
    /\ ~ \E r \in user_attributes :
            r.user_id = ctx.userId /\ r.name = mapActionToAttribute(ctx.action)
    /\ ~ last.result.allowed
    /\ last.result.reason.of = mapActionToAttribute(ctx.action)

\* C13 witness: the evaluation was allowed, the grant of the mapped
\* attribute then expired, and the next evaluation denies.
C13_WitnessExpired ==
    /\ last.op = "checkPermission"
    /\ last.failed = {}
    /\ AllowedBefore
    /\ \E r \in user_attributes :
            /\ r.user_id = ctx.userId
            /\ r.name = mapActionToAttribute(ctx.action)
            /\ ~ Active(r)
    /\ ~ last.result.allowed
    /\ last.result.reason.of = mapActionToAttribute(ctx.action)

\* C13 witness: a restriction that blocks the action has expired and the
\* evaluation allows.
C13_WitnessRestrictionExpired ==
    /\ last.op = "checkPermission"
    /\ \E r \in user_attributes :
            /\ r.user_id = ctx.userId
            /\ abac_attributes(r.name).category = "restriction"
            /\ restrictionAppliesToAction(r.name, ctx.action)
            /\ ~ Active(r)
    /\ last.result.allowed

\* what checkPermission returns to its caller
Returned(out) ==
    [ allowed           |-> out.allowed,
      reason            |-> out.reason,
      policy            |-> out.policy,
      attributesChecked |-> out.attributesChecked ]

\* the audit append of the last evaluation threw and the error was caught
AuditThrew ==
    /\ Len(last.console) >= 1
    /\ last.console[Len(last.console)] = "[ABAC] Error logging decision:"

\* C14: whenever an evaluation reached an audit append, the value it returns
\* (allowed, reason, policy, attributes checked) is the value the evaluation
\* steps give for the context and the store, whether the append succeeded,
\* returned an error or threw: a failed append never turns the call into a
\* system error and never changes the decision.
C14_AuditFailureKeepsResult ==
    (last.op = "checkPermission" /\ last.appends # <<>>)
    => \E fault \in StoreFaults : \E out \in checkPermission(ctx, fault) :
           /\ out.failed = last.failed
           /\ out.decisions = last.appends
           /\ last.result = Returned(out)
           /\ last.result.allowed = (last.appends[1].result = "allow")

\* C14 witness: the append threw, nothing was recorded, and the call still
\* returned an allow.
C14_Witness ==
    /\ last.op = "checkPermission"
    /\ last.appends # <<>>
    /\ ~ last.appended
    /\ AuditThrew
    /\ last.result.allowed
    /\ last.result.reason.msg = "Acceso permitido"

\* C14 witness: the append returned an error result, nothing was recorded,
\* and the call returned the denial of the restriction step.
C14_WitnessErrorResult ==
    /\ last.op = "checkPermission"
    /\ last.appends # <<>>
    /\ ~ last.appended
    /\ ~ AuditThrew
    /\ ~ last.result.allowed
    /\ last.result.policy = "Restriction Policy"

\* C14 witness: the append succeeded and the call returned an allow.
C14_WitnessAppended ==
    /\ last.op = "checkPermission"
    /\ last.appended
    /\ last.result.allowed

\* C15: an audit append that did not succeed, because the store call threw
\* or because it returned an error result, has been reported on the local
\* error channel when checkPermission returns.
C15_AuditFailureReported ==
    (last.op = "checkPermission" /\ last.appends # <<>> /\ ~ last.appended)
    => AuditThrew

\* C16: a call of checkPermission that waits for the audit insert returns,
\* whether or not the store ever settles the insert.
C16_CheckPermissionReturns ==
    (last.op = "awaitInsert") ~> (last.op = "checkPermission")

\* the call before call i made with the limiter and for the principal of
\* call i, or 0
PreviousCall(i) ==
    LET same == { j \in 1..(i - 1) :
                    /\ rateCalls[j].impl = rateCalls[i].impl
                    /\ rateCalls[j].identifier = rateCalls[i].identifier }
    IN IF same = {} THEN 0 ELSE MaxOf(same)

RECURSIVE WindowStart(_)
\* the opening time of the fixed window call i falls in: the time of the
\* principal's first call, or of the first call made more than a window
\* length after the opening of the window before
WindowStart(i) ==
    LET j == PreviousCall(i) IN
    IF j = 0 THEN rateCalls[i].at
    ELSE IF rateCalls[i].at - WindowStart(j) > RATE_LIMIT_WINDOW
         THEN rateCalls[i].at
         ELSE WindowStart(j)

\* the position of call i among the calls of its window
RankInWindow(i) ==
    Cardinality({ j \in 1..i :
                    /\ rateCalls[j].impl = rateCalls[i].impl
                    /\ rateCalls[j].identifier = rateCalls[i].identifier
                    /\ WindowStart(j) = WindowStart(i) })

\* C17: both limiters are fixed-window counters, for every principal and
\* every limit of at least one: a call is allowed exactly when it is among
\* the first `limit` calls of its window, so the (limit+1)-th and every later
\* call of the window is denied; the first call made more than a window
\* length after the window opened is allowed and opens a window with count 1;
\* the opening time of a window is set by its first call only, so a denied
\* call does not extend it.
C17_FixedWindow ==
    \A i \in 1..Len(rateCalls) :
        /\ rateCalls[i].allowed <=> RankInWindow(i) <= rateCalls[i].maxRequests
        /\ rateCalls[i].count = RankInWindow(i)
        /\ rateCalls[i].opened = WindowStart(i)
        /\ (PreviousCall(i) # 0 /\ rateCalls[i].at - WindowStart(PreviousCall(i)) > RATE_LIMIT_WINDOW)
           => (rateCalls[i].allowed /\ rateCalls[i].count = 1 /\ rateCalls[i].opened = rateCalls[i].at)

\* the calls i < j < k of one principal to limiter impl: i is denied as the
\* (limit+1)-th call of its window, j is denied in the same window later on,
\* and k, made after that window has elapsed but less than a window length
\* after j, is allowed with count 1
DeniedThenReset(impl) ==
    \E i, j, k \in 1..Len(rateCalls) :
        /\ i < j /\ j < k
        /\ \A n \in {i, j, k} : rateCalls[n].impl = impl /\ rateCalls[n].identifier = "u1"
        /\ RankInWindow(i) = rateCalls[i].maxRequests + 1
        /\ ~ rateCalls[i].allowed
        /\ WindowStart(j) = WindowStart(i)
        /\ rateCalls[j].at > rateCalls[i].at
        /\ ~ rateCalls[j].allowed
        /\ rateCalls[k].at - rateCalls[j].at <= RATE_LIMIT_WINDOW
        /\ rateCalls[k].allowed
        /\ rateCalls[k].count = 1

\* C17 witness, limiter of lib/vault/middleware
C17_Witness == DeniedThenReset("vault")

\* C17 witness, limiter of proxy.ts
C17_WitnessProxy == DeniedThenReset("proxy")

\* C17 witness: with limit 2 the third call of a window is the first denied
C17_WitnessLimitTwo ==
    \E i \in 1..Len(rateCalls) :
        /\ rateCalls[i].maxRequests = 2
        /\ RankInWindow(i) = 3
        /\ ~ rateCalls[i].allowed
        /\ \A j \in 1..(i - 1) : rateCalls[j].allowed

\* the character sequence a occurs in the character sequence s
Contains(s, a) ==
    \E i \in 1..(Len(s) + 1) :
        i + Len(a) - 1 <= Len(s) /\ SubSeq(s, i, i + Len(a) - 1) = a

\* the text columns of a row of audit_logs_sanitized
TextColumns(row) ==
    {row.user_hash, row.action, row.resource_type, row.result, row.reason_sanitized}

\* the values held by the metadata of a Decision
MetadataValues(pel) ==
    IF pel.metadata.classification = "" THEN {} ELSE {pel.metadata.classification}

\* C19: the anonymised projection of the decision log is deterministic and
\* free of identity: rows of one subject carry the same user_hash of 8
\* characters, and no text column of a row contains the subject id, the
\* resource id or a value of the metadata of the Decision it projects.
C19_ProjectionIdentityFree ==
    \A i \in 1..Len(policy_enforcement_log) :
        LET pel == policy_enforcement_log[i]
            row == audit_logs_sanitized[i]
        IN  /\ Len(row.user_hash) = 8
            /\ \A j \in 1..Len(policy_enforcement_log) :
                  policy_enforcement_log[j].user_id = pel.user_id
                  => audit_logs_sanitized[j].user_hash = row.user_hash
            /\ \A col \in TextColumns(row) :
                  /\ ~ Contains(col, Chars(pel.user_id))
                  /\ ~ Contains(col, Chars(pel.resource_id))
                  /\ \A v \in MetadataValues(pel) : ~ Contains(col, Chars(v))

\* the part of C19 about the subject and the resource: no text column of a
\* row contains the subject id or the resource id, and the hash is the same
\* for the same subject
C19_NoSubjectNoResource ==
    \A i \in 1..Len(policy_enforcement_log) :
        LET pel == policy_enforcement_log[i]
            row == audit_logs_sanitized[i]
        IN  /\ Len(row.user_hash) = 8
            /\ \A col \in TextColumns(row) :
                  /\ ~ Contains(col, Chars(pel.user_id))
                  /\ ~ Contains(col, Chars(pel.resource_id))

\* the calls of the audit endpoints' limiter made for principal u
CallsBy(u) ==
    { i \in 1..Len(rateCalls) :
        rateCalls[i].impl = "vault" /\ rateCalls[i].identifier = u }

\* the counter of principal u in rateLimitStore
CounterOf(u) ==
    IF StoreKey(u) \in DOMAIN rateLimitStore THEN rateLimitStore[StoreKey(u)].count ELSE 0

\* C18: whatever the interleaving of the concurrent requests of a principal
\* within one window, every request that reaches the limiter reads and
\* writes the counter in one step: the N requests see N consecutive counter
\* values ending at the stored counter (no update is lost, and a window the
\* requests opened ends at count N), and only those that saw a value of at
\* most the limit are allowed, so at most `limit` requests of the window are.
C18_NoLostUpdate ==
    \A u \in Users :
        LET calls == CallsBy(u)
            N == Cardinality(calls)
            before == CounterOf(u) - N
        IN  N > 0 =>
            /\ { rateCalls[i].count : i \in calls } = (before + 1)..CounterOf(u)
            /\ before >= 0
            /\ (\E i \in calls : rateCalls[i].count = 1) => CounterOf(u) = N
            /\ \A i \in calls : rateCalls[i].allowed <=> rateCalls[i].count <= ADMIN_RATE_LIMIT
            /\ Cardinality({ i \in calls : rateCalls[i].allowed })
                  <= MaxOf({0, ADMIN_RATE_LIMIT - before})

\* C18 witness: two requests of u1 are in flight at once, both past the
\* limiter, and the counter of the window they opened stands at 2.
C18_Witness ==
    /\ \A h \in Handlers :
          handlers[h].user = "u1" /\ handlers[h].pc \in {"logAuditAccess", "query"}
    /\ Cardinality(CallsBy("u1")) = 2
    /\ CounterOf("u1") = 2

\* C18 witness: of two concurrent requests in a window that held
\* ADMIN_RATE_LIMIT - 1 requests, one is allowed and one is denied.
C18_WitnessLimit ==
    /\ Cardinality(CallsBy("u1")) = 2
    /\ CounterOf("u1") = ADMIN_RATE_LIMIT + 1
    /\ \E i, j \in CallsBy("u1") : rateCalls[i].allowed /\ ~ rateCalls[j].allowed
    /\ \E h \in Handlers : handlers[h].response.status = 429

\* the steps of a handler, in the order of the code
StepOrder == <<"permission", "rateLimit", "logAuditAccess", "query">>

\* C20: in every audit endpoint the steps of a request run in the order
\* permission check, rate-limit check, meta-audit append, view query, the
\* rate-limit check and the append only after the check before them
\* passed; so a request that reads a view
\* has before that called logAuditAccess with the caller and that view, and
\* when the insert succeeded audit_access_log holds the row.
C20_AccessLoggedBeforeQuery ==
    \A h \in Handlers :
        LET r == handlers[h] IN
        /\ Len(r.events) <= Len(StepOrder)
        /\ \A k \in 1..Len(r.events) :
              /\ r.events[k].step = StepOrder[k]
              /\ r.events[k].by = r.user
              /\ k \in {2, 3} => r.events[k - 1].ok
        /\ \A k \in 1..Len(r.events) :
              r.events[k].step = "query" =>
                 /\ r.events[k].what = ViewOf(r.endpoint)
                 /\ r.events[1].what = RequiredAttribute(r.endpoint)
                 /\ r.events[k - 1].step = "logAuditAccess"
                 /\ r.events[k - 1].what = ViewOf(r.endpoint)
        /\ r.data # NULL => (Len(r.events) = 4 /\ r.data = ViewOf(r.endpoint))
        /\ \A k \in 1..Len(r.events) :
              (r.events[k].step = "logAuditAccess" /\ r.events[k].ok)
              => \E n \in 1..Len(audit_access_log) :
                    /\ audit_access_log[n].accessed_by = r.user
                    /\ audit_access_log[n].view_accessed = ViewOf(r.endpoint)

\* C20 witness: a request to the token statistics was served the view after
\* its access was recorded.
C20_Witness ==
    \E h \in Handlers :
        /\ handlers[h].endpoint = "tokens"
        /\ handlers[h].pc = "done"
        /\ handlers[h].response.status = 200
        /\ handlers[h].data = "audit_token_stats"
        /\ \E n \in 1..Len(audit_access_log) :
              audit_access_log[n] = [accessed_by |-> "u1", view_accessed |-> "audit_token_stats"]

\* C20 witness: a request was served the sanitized logs although the insert
\* of its access record failed; the append was attempted before the read.
C20_WitnessAppendFailed ==
    \E h \in Handlers :
        /\ handlers[h].endpoint = "logs"
        /\ handlers[h].response.status = 200
        /\ Len(handlers[h].events) = 4
        /\ ~ handlers[h].events[3].ok
        /\ audit_access_log = <<>>

-----------------------------------------------------------------------------
(* The request guards of src/proxy.ts on every class of path.              *)

\* a path of each rule of the guards, a public route, and paths of no rule
GuardPaths ==
    { "/auth/login", "/", "/supreme-court/cases", "/admin/users", "/judge/cases",
      "/api/admin/users", "/api/audit/logs", "/api/judge/cases", "/dashboard",
      "/api/cases" }

\* the scopes of rateLimitMap and the limit of each
Scopes == {"admin", "audit-api", "dashboard", "api-admin"}
ScopeLimit(scope) ==
    IF scope \in {"admin", "audit-api"} THEN RATE_LIMIT_MAX_ADMIN ELSE RATE_LIMIT_MAX_GENERAL

\* rateLimitMap when requests start: empty, or one window of u1, opened at 0,
\* one request short of its limit
GuardRateSeeds ==
    { <<>> } \cup
    { [ k \in {RateKey(scope, "u1")} |-> [count |-> ScopeLimit(scope) - 1, timestamp |-> 0] ] :
        scope \in Scopes }

\* a request passes one of the guards; what lies behind the guard is left out
GuardRequest(g, user, pathname) ==
    /\ http.op = "none"
    /\ requests < MaxRequests
    /\ LET v == IF g = "proxy" THEN proxy(pathname, user) ELSE middleware(pathname, user) IN
       /\ rateLimitMap' = v.rateLimitMap
       /\ http' = [ op |-> "request", method |-> "GET", guard |-> g, user |-> user,
                    pathname |-> pathname,
                    handled |-> v.response.kind = "next", response |-> v.response,
                    events |-> <<>>, assignedJudgeId |-> NULL ]
    /\ requests' = requests + 1
    /\ UNCHANGED <<role, user_attributes, now, policy_enforcement_log, ctx, last, status,
                   cases, case_assignments, identity_mapping, auditVars, clock,
                   ephemeral_credentials, pages>>

\* u1 has any role and status; no grants matter to the guards
InitGuard ==
    /\ role \in { [u \in Users |-> IF u = "u1" THEN r ELSE "judge"] : r \in Roles }
    /\ user_attributes = SeedRows
    /\ now = 0
    /\ policy_enforcement_log = <<>>
    /\ ctx = Context("u1", "case.details.view", "cases", "")
    /\ last = NoOp
    /\ status \in { [u \in Users |-> IF u = "u1" THEN s ELSE "active"] :
                      s \in {"active", "suspended"} }
    /\ cases = {[id |-> "c1", status |-> "assigned"]}
    /\ case_assignments = {}
    /\ identity_mapping = {}
    /\ rateLimitMap \in GuardRateSeeds
    /\ clock = 0
    /\ http = NoOp
    /\ requests = 0
    /\ ephemeral_credentials = <<>>
    /\ pages = [p \in Pages |-> IdlePage]
    /\ IdleAudit

NextGuard ==
    \/ \E g \in Guards, user \in Sessions, pathname \in GuardPaths :
          GuardRequest(g, user, pathname)
    \/ RespondHttp
    \/ \E d \in ClockSteps : Advance(d)

SpecGuard == InitGuard /\ [][NextGuard]_vars

-----------------------------------------------------------------------------
(* C21 *)

RateLimitHeaders == {"X-RateLimit-Remaining", "X-RateLimit-Reset"}

\* C21: every 429 answered to a request for a path under /api/audit, by a
\* route handler or by the middleware guard, carries the headers
\* X-RateLimit-Remaining and X-RateLimit-Reset
C21_RateLimitRejectionHeaders ==
    /\ \A h \in DOMAIN handlers :
          handlers[h].response.status = 429
          => RateLimitHeaders \subseteq DOMAIN handlers[h].response.headers
    /\ ( /\ http.op = "request"
         /\ StartsWith(http.pathname, "/api/audit")
         /\ http.response.status = 429 )
       => RateLimitHeaders \subseteq DOMAIN http.response.headers

\* the part of C21 about the route handlers: their 429 carries both headers,
\* with the remaining count and the seconds to the reset
C21_RouteHandlerHeaders ==
    \A h \in DOMAIN handlers :
       handlers[h].response.status = 429
       => /\ DOMAIN handlers[h].response.headers = RateLimitHeaders
          /\ handlers[h].response.headers["X-RateLimit-Remaining"] = 0
          /\ handlers[h].response.headers["X-RateLimit-Reset"] \in 1..60

-----------------------------------------------------------------------------
(* sanitizeSearchParams (src/lib/vault/middleware.ts).                     *)

DigitChars == <<"0", "1", "2", "3", "4", "5", "6", "7", "8", "9">>
Digit == { DigitChars[i] : i \in DOMAIN DigitChars }
DigitValue(c) == (CHOOSE i \in DOMAIN DigitChars : DigitChars[i] = c) - 1
LowerCase ==
    { "a", "b", "c", "d", "e", "f", "g", "h", "i", "j", "k", "l", "m",
      "n", "o", "p", "q", "r", "s", "t", "u", "v", "w", "x", "y", "z" }
UpperCase ==
    { "A", "B", "C", "D", "E", "F", "G", "H", "I", "J", "K", "L", "M",
      "N", "O", "P", "Q", "R", "S", "T", "U", "V", "W", "X", "Y", "Z" }
\* the white space of the inputs
WhiteSpace == {" "}

RECURSIVE StripStart(_)
StripStart(a) == IF a # <<>> /\ Head(a) \in WhiteSpace THEN StripStart(Tail(a)) ELSE a

RECURSIVE StripEnd(_)
StripEnd(a) ==
    IF a # <<>> /\ a[Len(a)] \in WhiteSpace THEN StripEnd(SubSeq(a, 1, Len(a) - 1)) ELSE a

\* String.prototype.trim
Trim(a) == StripEnd(StripStart(a))

\* the longest prefix of decimal digits
RECURSIVE DigitsPrefix(_)
DigitsPrefix(a) ==
    IF a # <<>> /\ Head(a) \in Digit THEN <<Head(a)>> \o DigitsPrefix(Tail(a)) ELSE <<>>

RECURSIVE Decimal(_)
Decimal(ds) ==
    IF ds = <<>> THEN 0 ELSE 10 * Decimal(SubSeq(ds, 1, Len(ds) - 1)) + DigitValue(ds[Len(ds)])

\* parseInt(s, 10): white space is skipped, then an optional sign, then the
\* digits up to the first other character; NaN when there is no digit
parseInt(s) ==
    LET a  == StripStart(Chars(s))
        b  == IF a # <<>> /\ Head(a) \in {"-", "+"} THEN Tail(a) ELSE a
        ds == DigitsPrefix(b)
    IN  IF ds = <<>> THEN [nan |-> TRUE, value |-> 0]
        ELSE [ nan |-> FALSE,
               value |-> IF Head(a) = "-" THEN 0 - Decimal(ds) ELSE Decimal(ds) ]

\* text || fallback: null, undefined and '' are falsy
OrText(text, fallback) == IF text = NULL \/ Chars(text) = <<>> THEN fallback ELSE text

\* number || fallback: NaN and 0 are falsy
OrNumber(n, fallback) == IF n.nan \/ n.value = 0 THEN fallback ELSE n.value

MinOf(S) == CHOOSE x \in S : \A y \in S : x <= y

\* /^\d{4}-\d{2}-\d{2}$/.test(text)
dateRegex(text) ==
    LET a == Chars(text) IN
    /\ Len(a) = 10
    /\ \A i \in 1..10 : IF i \in {5, 8} THEN a[i] = "-" ELSE a[i] \in Digit

\* text.replace(/[^a-zA-Z0-9\s\-_.]/g, '')
RECURSIVE KeepSafe(_)
KeepSafe(a) ==
    IF a = <<>> THEN <<>>
    ELSE IF Head(a) \in LowerCase \cup UpperCase \cup Digit \cup WhiteSpace \cup {"-", "_", "."}
    THEN <<Head(a)>> \o KeepSafe(Tail(a))
    ELSE KeepSafe(Tail(a))

\* sanitizeSearchParams(params); search is returned as its characters
sanitizeSearchParams(params) ==
    [ search    |-> IF params.search = NULL \/ Chars(params.search) = <<>> THEN <<>>
                    ELSE LET kept == KeepSafe(Chars(params.search))
                         IN  Trim(SubSeq(kept, 1, MinOf({100, Len(kept)}))),
      page      |-> MaxOf({1, MinOf({1000, OrNumber(parseInt(OrText(params.page, "1")), 1)})}),
      limit     |-> MaxOf({1, MinOf({100, OrNumber(parseInt(OrText(params.limit, "20")), 20)})}),
      startDate |-> IF params.startDate # NULL /\ Chars(params.startDate) # <<>>
                       /\ dateRegex(params.startDate)
                    THEN params.startDate ELSE NULL,
      endDate   |-> IF params.endDate # NULL /\ Chars(params.endDate) # <<>>
                       /\ dateRegex(params.endDate)
                    THEN params.endDate ELSE NULL ]

\* values of searchParams.get('page') and searchParams.get('limit')
NumberInputs ==
    { NULL, "", "0", "-5", "abc", "7", "100", "101", "1000", "1001", "12abc", " 7", "+5", "-0" }
\* values of searchParams.get('startDate') and searchParams.get('endDate')
DateInputs ==
    { NULL, "", "2024-01-15", "2024-1-5", "2024-13-45", "2024-01-15T00:00", "15/01/2024" }
\* values of searchParams.get('search')
SearchInputs == { NULL, "judge-1", "<b>a'; DROP</b>", "  x y  " }

\* a request's search parameters arrive
Params ==
    /\ http.op = "none"
    /\ requests < MaxRequests
    /\ \E search \in SearchInputs, page \in NumberInputs, limit \in NumberInputs,
          startDate \in DateInputs, endDate \in DateInputs :
          http' = [ op |-> "params",
                    params |-> [ search |-> search, page |-> page, limit |-> limit,
                                 startDate |-> startDate, endDate |-> endDate ] ]
    /\ requests' = requests + 1
    /\ UNCHANGED <<role, user_attributes, now, policy_enforcement_log, ctx, last, status,
                   cases, case_assignments, identity_mapping, auditVars, rateLimitMap, clock,
                   ephemeral_credentials, pages>>

\* the handler sanitizes them
Sanitize ==
    /\ http.op = "params"
    /\ http' = [ op |-> "sanitized", params |-> http.params,
                 sanitized |-> sanitizeSearchParams(http.params) ]
    /\ UNCHANGED <<role, user_attributes, now, policy_enforcement_log, ctx, last, status,
                   cases, case_assignments, identity_mapping, auditVars, rateLimitMap, clock,
                   requests, ephemeral_credentials, pages>>

\* the values the try block of a handler may throw: the errors of the guards,
\* errors of the libraries, and values that are no Error
ThrownValues ==
    { Error(m) : m \in DOMAIN errorMap }
    \cup { Error("connect ECONNREFUSED 10.0.0.5:5432"), Error("Unknown error"), Error(""),
           Error("constructor"), Error("toString"), Error("__proto__") }
    \cup { NonError("Forbidden"), NonError("permission denied for view audit_token_stats"),
           NonError(NULL) }

\* the try block of a handler throws and its catch answers
\* createSecureErrorResponse(error)
Catch(error) ==
    /\ http.op = "none"
    /\ requests < MaxRequests
    /\ http' = [ op |-> "caught", error |-> error,
                 response |-> createSecureErrorResponse(error) ]
    /\ requests' = requests + 1
    /\ UNCHANGED <<role, user_attributes, now, policy_enforcement_log, ctx, last, status,
                   cases, case_assignments, identity_mapping, auditVars, rateLimitMap, clock,
                   ephemeral_credentials, pages>>

InitParams ==
    /\ role = [u \in Users |-> "admin"]
    /\ user_attributes = SeedRows
    /\ now = 0
    /\ policy_enforcement_log = <<>>
    /\ ctx = Context("u1", "case.details.view", "cases", "")
    /\ last = NoOp
    /\ IdlePlatform

NextParams ==
    \/ Params
    \/ Sanitize
    \/ \E error \in ThrownValues : Catch(error)
    \/ RespondHttp

SpecParams == InitParams /\ [][NextParams]_vars

-----------------------------------------------------------------------------
(* C22 *)

\* the text is a decimal integer: an optional minus sign and digits
IsInteger(text) ==
    LET a == Chars(text)
        b == IF a # <<>> /\ Head(a) = "-" THEN Tail(a) ELSE a
    IN  b # <<>> /\ \A i \in DOMAIN b : b[i] \in Digit

\* a returned date is null or has the form YYYY-MM-DD
IsoShaped(date) ==
    date # NULL =>
       LET a == Chars(date) IN
       /\ Len(a) = 10 /\ a[5] = "-" /\ a[8] = "-"
       /\ \A i \in {1, 2, 3, 4, 6, 7, 9, 10} : a[i] \in Digit

\* the nearest value of lo..hi to n
Clamp(n, lo, hi) == IF n < lo THEN lo ELSE IF n > hi THEN hi ELSE n

\* the part of C22 about the ranges: whatever the parameters, the result has
\* page >= 1, limit in 1..100 and dates that are null or of the form YYYY-MM-DD
C22_ResultInRange ==
    http.op = "sanitized" =>
       /\ http.sanitized.page >= 1
       /\ http.sanitized.limit \in 1..100
       /\ IsoShaped(http.sanitized.startDate)
       /\ IsoShaped(http.sanitized.endDate)

\* C22: sanitizeSearchParams returns page >= 1, limit in 1..100 and dates
\* that are null or of the form YYYY-MM-DD, and a page or limit given as an
\* integer outside its range comes back as the nearest bound of the range
C22_SanitizeClamps ==
    http.op = "sanitized" =>
       /\ C22_ResultInRange
       /\ (http.params.page # NULL /\ IsInteger(http.params.page))
          => http.sanitized.page = Clamp(parseInt(http.params.page).value, 1, 1000)
       /\ (http.params.limit # NULL /\ IsInteger(http.params.limit))
          => http.sanitized.limit = Clamp(parseInt(http.params.limit).value, 1, 100)

-----------------------------------------------------------------------------
(* C23 *)

\* the caller may read the endpoint: authenticated, active, and a super_admin
\* or an admin holding an unexpired grant of the endpoint's attribute
Entitled(user, endpoint) ==
    /\ user # NULL
    /\ status[user] = "active"
    /\ \/ role[user] = "super_admin"
       \/ /\ role[user] = "admin"
          /\ \E g \in user_attributes :
                /\ g.user_id = user
                /\ g.name = RequiredAttribute(endpoint)
                /\ (g.expires_at = NULL_TIME \/ g.expires_at > now)

\* C23: an audit endpoint returns data only to an entitled caller; for any
\* other caller the handler ends at requireAdminWithPermission with a 401 or
\* 403, and neither counts the request in the rate limit, nor writes the
\* meta-audit row, nor queries the view
C23_OnlyEntitledCallers ==
    \A h \in DOMAIN handlers :
       LET r == handlers[h] IN
       /\ r.data # NULL => Entitled(r.user, r.endpoint)
       /\ (r.pc \notin {"idle", "requireAdmin"} /\ ~ Entitled(r.user, r.endpoint))
          => /\ r.pc = "done"
             /\ Len(r.events) = 1
             /\ r.events[1].step = "permission" /\ ~ r.events[1].ok
             /\ r.response.status \in {401, 403}
             /\ r.data = NULL
             /\ \A n \in DOMAIN audit_access_log :
                   ~ ( /\ audit_access_log[n].accessed_by = r.user
                       /\ audit_access_log[n].view_accessed = ViewOf(r.endpoint) )
             /\ (\A e \in Endpoints : ~ Entitled(r.user, e))
                => \A n \in DOMAIN rateCalls : rateCalls[n].identifier # r.user

\* C23 witness: an auditor whose grant of the metrics attribute has expired is
\* refused the metrics view with a 403 while the logs view is returned to them.
C23_Witness ==
    \E h, g \in DOMAIN handlers :
        /\ handlers[h].user = "u1" /\ handlers[h].endpoint = "metrics"
        /\ role["u1"] = "admin"
        /\ \E a \in user_attributes : a.user_id = "u1" /\ a.name = "audit.metrics.view"
        /\ handlers[h].pc = "done" /\ handlers[h].response.status = 403
        /\ handlers[g].user = "u1" /\ handlers[g].endpoint = "logs"
        /\ handlers[g].data = "audit_logs_sanitized"

\* C23 witness: a request without a session ends with a 401 and no other step.
C23_WitnessUnauthenticated ==
    \E h \in DOMAIN handlers :
        /\ handlers[h].user = NULL
        /\ handlers[h].pc = "done"
        /\ handlers[h].response = Json(401, "Authentication required")
        /\ Len(handlers[h].events) = 1

-----------------------------------------------------------------------------
(* C24 *)

\* the messages of the fixed table
SafeMessages ==
    {"Authentication required", "Account suspended", "Access denied", "Insufficient permissions"}

\* the part of C24 about internal text: the body of the response never holds
\* the message of an error that the table does not map
C24_NoInternalText ==
    http.op = "caught" =>
       /\ http.response.error \in SafeMessages \cup {"Internal server error", NULL}
       /\ ~ (http.error.instanceOfError /\ http.error.message \in DOMAIN errorMap)
          => http.response.error # http.error.message

\* C24: the response to a thrown value is a message of the fixed table with
\* the table's status, 401 or 403, when the value is an Error whose message
\* the table maps, and 'Internal server error' with status 500 for every
\* other Error and every value that is no Error
C24_SecureErrorResponse ==
    http.op = "caught" =>
       IF http.error.instanceOfError /\ http.error.message \in DOMAIN errorMap
       THEN /\ http.response.kind = "json"
            /\ http.response.error \in SafeMessages
            /\ http.response.status \in {401, 403}
       ELSE http.response = Json(500, "Internal server error")

-----------------------------------------------------------------------------
(* C25 *)

\* the path is a public auth route
IsPublic(pathname) == \E route \in publicRoutes : StartsWith(pathname, route)

\* the role satisfies every rule of the path
RoleSatisfies(pathname, r) ==
    /\ StartsWith(pathname, "/supreme-court") => r = "super_admin"
    /\ StartsWith(pathname, "/api/admin") => r = "super_admin"
    /\ StartsWith(pathname, "/admin") => r \in {"admin", "super_admin"}
    /\ StartsWith(pathname, "/api/audit") => r \in {"admin", "super_admin"}
    /\ StartsWith(pathname, "/judge") => r = "judge"
    /\ StartsWith(pathname, "/api/judge") => r \in {"judge", "secretary"}

\* C25: proxy lets a request through only if the path is a public auth route
\* or the user is authenticated, active and of a role that satisfies the rule
\* of the path; on every other path a request without a session or of a user
\* who is not active is redirected to /auth/login
C25_ProxyGuard ==
    (http.op = "request" /\ http.guard = "proxy") =>
       /\ http.handled
          => \/ IsPublic(http.pathname)
             \/ /\ http.user # NULL
                /\ status[http.user] = "active"
                /\ RoleSatisfies(http.pathname, role[http.user])
       /\ (~ IsPublic(http.pathname) /\ (http.user = NULL \/ status[http.user] # "active"))
          => /\ ~ http.handled
             /\ http.response \in { Redirect("/auth/login"),
                                    Redirect("/auth/login?error=account_inactive") }

\* C25 witness: a suspended admin asking for /admin/users is sent to the login
\* page.
C25_Witness ==
    /\ http.op = "request" /\ http.guard = "proxy"
    /\ http.user = "u1" /\ role["u1"] = "admin" /\ status["u1"] = "suspended"
    /\ http.pathname = "/admin/users"
    /\ http.response = Redirect("/auth/login?error=account_inactive")

\* C25 witness: an active secretary passes to /api/judge/cases and is refused
\* /judge/cases; a request without a session passes to /auth/login.
C25_WitnessRules ==
    /\ http.op = "request" /\ http.guard = "proxy"
    /\ \/ /\ http.user = "u1" /\ role["u1"] = "secretary" /\ status["u1"] = "active"
          /\ \/ http.pathname = "/api/judge/cases" /\ http.handled
             \/ http.pathname = "/judge/cases" /\ http.response = Redirect("/")
       \/ http.user = NULL /\ http.pathname = "/auth/login" /\ http.handled

-----------------------------------------------------------------------------
(* C27 *)

\* the attribute each method of /api/admin/cases/[id] is held to need
AttributeOf(method) == IF method = "GET" THEN "case.details.view" ELSE "case.edit.metadata"

\* the user holds an unexpired grant of the attribute
HoldsActive(user, attribute) ==
    \E g \in user_attributes :
        /\ g.user_id = user
        /\ g.name = attribute
        /\ (g.expires_at = NULL_TIME \/ g.expires_at > now)

\* C27: a caller of GET or PATCH /api/admin/cases/[id] who does not hold
\* case.details.view (GET) or case.edit.metadata (PATCH) is refused, with a
\* 403 or with the 500 of a failed store, and the handler neither reads the
\* case, nor resolves an identity, nor updates the case
C27_AttributeGatesCase ==
    ( /\ http.op = "request"
      /\ http.handled
      /\ http.user # NULL
      /\ ~ HoldsActive(http.user, AttributeOf(http.method)) )
    => /\ http.response.status \in {403, 500}
       /\ \A i \in DOMAIN http.events :
             http.events[i].kind \notin {"read", "resolveIdentity", "update"}

\* the same for PATCH alone
C27_PatchNeedsEditMetadata ==
    (http.op = "request" /\ http.method = "PATCH") => C27_AttributeGatesCase

-----------------------------------------------------------------------------
(* C28 *)

C28_WitnessUnlocked ==
    \E p \in Pages :
        /\ pages[p].view = "CaseView" /\ pages[p].caseId = "c1"
        /\ pages[p].tokenInfo.caseId = "c1"

\* C28 witness: the page of a case that is dictaminado, asked with the cookie of
\* an unused token of that case, shows "Caso Cerrado" and leaves the token unused.
C28_WitnessClosed ==
    \E p \in Pages :
        /\ pages[p].view = "Caso Cerrado" /\ pages[p].caseId = "c1"
        /\ "t1" \in DOMAIN ephemeral_credentials
        /\ ephemeral_credentials["t1"].case_id = "c1"
        /\ ephemeral_credentials["t1"].used_at = NULL_TIME
        /\ ephemeral_credentials["t1"].expires_at > now

-----------------------------------------------------------------------------
(* C29 *)

\* C29: with the store answering, hasClearance(subject, requiredLevel(c))
\* returns what checkClearanceLevel(subject, c) returns on the same grants,
\* for every classification c
C29_ClearanceChecksAgree ==
    (last.op = "hasClearance" /\ last.fault = "none")
    => \A c \in Classifications :
          requiredLevels(c) = last.minLevel
          => last.result = checkClearanceLevel(last.userId, c, "none")

\* the part of C29 that holds: the two checks agree for every subject with at
\* least one unexpired clearance grant, with or without a tier in its name
C29_AgreeWithClearance ==
    ( /\ last.op = "hasClearance" /\ last.fault = "none"
      /\ clearanceQuery(last.userId, "none").rows # {} )
    => \A c \in Classifications :
          requiredLevels(c) = last.minLevel
          => last.result = checkClearanceLevel(last.userId, c, "none")

-----------------------------------------------------------------------------
(* C30 *)

\* the columns of audit_token_stats that count the credential at the instant now
BucketsOf(t) ==
    LET c == ephemeral_credentials[t] IN
    { b \in {"tokens_used", "tokens_expired_unused", "tokens_pending"} :
        \/ b = "tokens_used" /\ c.used_at # NULL_TIME
        \/ b = "tokens_expired_unused" /\ c.expires_at < now /\ c.used_at = NULL_TIME
        \/ b = "tokens_pending" /\ c.expires_at > now /\ c.used_at = NULL_TIME }

\* C30: at every instant every issued credential is counted in exactly one of
\* tokens_used, tokens_expired_unused and tokens_pending, so that in every row
\* of audit_token_stats, and in the summary of the endpoint, the emitted
\* tokens are the sum of the three
C30_TokenStatsPartition ==
    /\ \A t \in DOMAIN ephemeral_credentials : Cardinality(BucketsOf(t)) = 1
    /\ \A day \in audit_token_stats :
          day.tokens_emitted =
             day.tokens_used + day.tokens_expired_unused + day.tokens_pending
    /\ LET s == summary(audit_token_stats)
       IN  s.totalEmitted = s.totalUsed + s.totalExpiredUnused + s.totalPending

\* the part of C30 that holds: no credential is counted twice, and the counts
\* of a row never exceed its emitted tokens
C30_AtMostOneBucket ==
    /\ \A t \in DOMAIN ephemeral_credentials : Cardinality(BucketsOf(t)) <= 1
    /\ \A day \in audit_token_stats :
          day.tokens_emitted >=
             day.tokens_used + day.tokens_expired_unused + day.tokens_pending

\* the part of C30 that holds: a credential counted as used stays used, and one
\* counted as expired and unused stays so
C30_NeverBack ==
    [][ \A t \in DOMAIN ephemeral_credentials :
           /\ ephemeral_credentials[t].used_at # NULL_TIME
              => ephemeral_credentials'[t].used_at = ephemeral_credentials[t].used_at
           /\ ( /\ ephemeral_credentials[t].used_at = NULL_TIME
                /\ ephemeral_credentials[t].expires_at < now )
              => /\ ephemeral_credentials'[t].used_at = NULL_TIME
                 /\ ephemeral_credentials'[t].expires_at < now' ]_vars

====
